---- MODULE Spec2Model ----
(***************************************************************************)
(* Model of the GASTRoNOoM modeling session of ComboCode                   *)
(* (cc/modeling/codes/Gastronoom.py): the three nested databases           *)
(* (cooling, mline, sphinx), the three database checks and the three       *)
(* stage drivers doGastronoom/doCooling, doMline and doSphinx.             *)
(*                                                                         *)
(* Model ids are the natural numbers 1..MaxId in creation order (the       *)
(* source's ids are time stamps, sorted() orders them by creation time);   *)
(* EMPTY stands for the empty string '' and NONE for Python's None.        *)
(***************************************************************************)
EXTENDS Integers, Sequences, FiniteSets, TLC

\* ------------------------------------------------------------------------
\* Bounds of the model
\* ------------------------------------------------------------------------
MaxId == 4
MaxRequests == 2
MaxSessions == 2
MaxMolecs == 2
MaxTrans == 2

EMPTY == 0
NONE == -1

Ids == 1..MaxId

\* ------------------------------------------------------------------------
\* Dictionaries: Python dicts are functions with a finite domain
\* ------------------------------------------------------------------------
EmptyDict == << >>

has_key(d, k) == k \in DOMAIN d

Put(d, k, v) == [x \in (DOMAIN d) \cup {k} |-> IF x = k THEN v ELSE d[x]]

Del(d, k) == [x \in (DOMAIN d) \ {k} |-> d[x]]

Min(S) == CHOOSE x \in S : \A y \in S : x <= y

\* ------------------------------------------------------------------------
\* Request inputs (the Star object): cooling parameters, molecules,
\* transitions
\* ------------------------------------------------------------------------
MoleculeNames == {"12C16O", "28Si16O"}
NameRank(n) == IF n = "12C16O" THEN 1 ELSE 2
no_ab_molecs == {"12C16O", "13C16O", "1H1H16O", "p1H1H16O",
                 "1H1H17O", "p1H1H17O", "1H1H18O", "p1H1H18O"}
IteraValues(name) == {1}
AbunValues == {1}
TransNames == {"1-0"}
TransRank(t) == IF t = "1-0" THEN 1 ELSE 2
NQuadValues(name) == {1}
EpsilonValues == {1, 2}
Epsilon2Values == {0}

\* str(trans): the transition signature, molecule name included
TransKey(name, tname) == <<name, tname>>
KeyRank(k) == 2 * NameRank(k[1]) + TransRank(k[2])

\* A fresh Molecule(): model id None (Molecule.__init__)
FreshMolecules ==
    {m \in [molecule : MoleculeNames, itera : {1, 2}, abun_molec : AbunValues,
            model_id : {NONE}] : m.itera \in IteraValues(m.molecule)}

\* Star['GAS_LIST']: one Molecule per molecule name (calcGAS_LIST raises
\* otherwise)
MolecLists ==
    {ml \in UNION {[1..n -> FreshMolecules] : n \in 1..MaxMolecs} :
        /\ ml[1].molecule = "12C16O"
        /\ \A i, j \in DOMAIN ml :
            i < j => NameRank(ml[i].molecule) < NameRank(ml[j].molecule)}

\* A fresh Transition of molecule number m of the list
FreshTrans(ml) ==
    {t \in [molecule : DOMAIN ml, tname : TransNames, n_quad : {1, 2},
            model_id : {NONE}] :
        t.n_quad \in NQuadValues(ml[t.molecule].molecule)}

\* Star['GAS_LINES']: sorted by str(trans), one per signature
\* (calcGAS_LINES)
TransLists(ml) ==
    {tl \in UNION {[1..n -> FreshTrans(ml)] : n \in 1..MaxTrans} :
        /\ Len(tl) = Len(ml)
        /\ \A i, j \in DOMAIN tl : i < j =>
            KeyRank(TransKey(ml[tl[i].molecule].molecule, tl[i].tname))
              < KeyRank(TransKey(ml[tl[j].molecule].molecule, tl[j].tname))}

StarPars == [TEMPERATURE_EPSILON_GAS : EpsilonValues,
             TEMPERATURE_EPSILON2_GAS : Epsilon2Values]

\* Session keywords of Gastronoom.__init__
SessionFlags ==
    {f \in [vic : BOOLEAN, sphinx : BOOLEAN, replace_db_entry : BOOLEAN,
            skip_cooling : BOOLEAN, recover_sphinxfiles : BOOLEAN] :
        /\ Cardinality({k \in {"vic", "replace_db_entry", "skip_cooling",
                               "recover_sphinxfiles"} : f[k]}) <= 1
        /\ ~f.sphinx => \A k \in DOMAIN f : ~f[k]}

\* What a solver run can leave behind: the cooling output file or not; no
\* ml file, the three of a complete mline run, or one more; the two files
\* of a complete sphinx run, or one more (a transition that was never run
\* has no file)
CoolingOutcomes == BOOLEAN
MlineFileCounts == {0, 3, 4}
SphinxFileCounts == {2, 3}

\* ------------------------------------------------------------------------
\* State
\* ------------------------------------------------------------------------
VARIABLES
    cool_db,            \* cooling database: id -> cooling dict
    ml_db,              \* mline database: id -> molec id -> molecule -> dict
    sph_db,             \* sphinx database: id -> molec id -> trans id
                        \*                  -> str(trans) -> dict
    sphfiles,           \* number of sphinx output files on disk per
                        \* <<trans id, str(trans)>>
    nextId,             \* the id the next makeNewId() call returns
    flags,              \* keywords the session was constructed with
    model_id,           \* self.model_id
    new_entries,        \* self.new_entries
    command_list,       \* self.command_list
    molec_list,         \* self.molec_list = star['GAS_LIST']
    trans_list,         \* self.trans_list = star['GAS_LINES']
    trans_bools,        \* self.trans_bools
    trans_in_progress,  \* self.trans_in_progress
    pc,                 \* the stage driver that returned last
                        \* ("configError": doGastronoom has raised for an
                        \* error in the star's input)
    raised,             \* the last stage driver ended in an exception
    events,             \* external calls of the last stage driver, in order
    last,               \* results local to the last stage driver
    nreq,               \* number of doGastronoom calls so far
    nsess,              \* number of sessions constructed so far
    session_ids,        \* history: the model ids with which doGastronoom has
                        \* ended in the current session
    folders             \* the output folders on disk: id -> the names of
                        \* the files in models/<id>, as far as copyOutput
                        \* looks at them

vars == <<cool_db, ml_db, sph_db, sphfiles, nextId, flags, model_id,
          new_entries, command_list, molec_list, trans_list, trans_bools,
          trans_in_progress, pc, raised, events, last, nreq, nsess,
          session_ids, folders>>

\* The mutable state as one record, threaded through the stage drivers
State ==
    [cool_db |-> cool_db, ml_db |-> ml_db, sph_db |-> sph_db,
     sphfiles |-> sphfiles, nextId |-> nextId, flags |-> flags,
     model_id |-> model_id, new_entries |-> new_entries,
     command_list |-> command_list, molec_list |-> molec_list,
     trans_list |-> trans_list, trans_bools |-> trans_bools,
     trans_in_progress |-> trans_in_progress, raised |-> FALSE,
     events |-> << >>]

\* An external call: what (ev), of which stage or store (code), for which
\* id, for which place in molec_list/trans_list or parent id (arg), and the
\* number of files a glob found (n)
Event(ev, code, id, arg) ==
    [ev |-> ev, code |-> code, id |-> id, arg |-> arg, n |-> 0]

GlobEvent(code, id, arg, n) ==
    [ev |-> "glob", code |-> code, id |-> id, arg |-> arg, n |-> n]

Log(s, e) == [s EXCEPT !.events = Append(@, e)]

\* ------------------------------------------------------------------------
\* ModelingSession (base class): id allocation and dictionary comparison
\* ------------------------------------------------------------------------
\* self.model_id of a newly constructed session
InitModelId == EMPTY

\* makeNewId(): a new id, later than every id made before
makeNewId(s) == s.nextId

AfterNewId(s) == [s EXCEPT !.nextId = @ + 1]

cooling_keywords == {"TEMPERATURE_EPSILON", "TEMPERATURE_EPSILON2"}
mline_keywords == {"MOLECULE", "ITERA", "ABUN_MOLEC"}
sphinx_keywords == {"TRANSITION", "N_QUAD"}
abun_keywords == {"ABUN_MOLEC"}

\* A comparison that lets a keyword pass when one side does not have it
compareCommandLists_lenient(this_list, modellist, keywords) ==
    \A k \in keywords :
        (has_key(this_list, k) /\ has_key(modellist, k))
            => this_list[k] = modellist[k]

\* compareCommandLists: equal on every keyword of the stage; a keyword
\* present on one side only is a difference
compareCommandLists(this_list, modellist, keywords) ==
    \A k \in keywords :
        \/ has_key(this_list, k) /\ has_key(modellist, k)
             /\ this_list[k] = modellist[k]
        \/ ~has_key(this_list, k) /\ ~has_key(modellist, k)

\* ------------------------------------------------------------------------
\* Gastronoom.updateModel
\* ------------------------------------------------------------------------
IdKeys == {"OUTPUT_DIRECTORY", "PARAMETER_FILE", "OUTPUT_SUFFIX"}

updateModel(s, id) ==
    LET new == IF id # NONE /\ id # EMPTY THEN id ELSE s.model_id
    IN [s EXCEPT !.command_list =
            [k \in DOMAIN @ |-> IF k \in IdKeys THEN new ELSE @[k]]]

\* ------------------------------------------------------------------------
\* Gastronoom.deleteCoolingId
\* ------------------------------------------------------------------------
\* A deletion that forgets the sphinx database
deleteCoolingId_keepsSphinx(s, id) ==
    Log([s EXCEPT !.cool_db = Del(@, id),
                  !.ml_db = Del(@, id)],
        Event("deleteCoolingId", "cooling", id, 0))

deleteCoolingId(s, id) ==
    Log([s EXCEPT !.cool_db = Del(@, id),
                  !.ml_db = Del(@, id),
                  !.sph_db = Del(@, id)],
        Event("deleteCoolingId", "cooling", id, 0))

\* ------------------------------------------------------------------------
\* Gastronoom.checkCoolingDatabase: <<new state, model_bool>>
\* ------------------------------------------------------------------------
\* A scan that passes over the first of several matching entries
CoolingMatches_withoutFirst(s, molec_dict) ==
    LET all == {id \in DOMAIN s.cool_db :
                    compareCommandLists(molec_dict @@ s.command_list,
                                        s.cool_db[id], cooling_keywords)}
    IN IF Cardinality(all) > 1 THEN all \ {Min(all)} ELSE all

\* The entries of the cooling database that match the session's command list
CoolingMatches(s, molec_dict) ==
    {id \in DOMAIN s.cool_db :
        compareCommandLists(molec_dict @@ s.command_list, s.cool_db[id],
                            cooling_keywords)}

\* A lookup that finds nothing
checkCoolingDatabase_alwaysMisses(s, molec_dict) == <<s, FALSE>>

\* A lookup that replaces a matched entry in every mode
checkCoolingDatabase_alwaysReplaces(s, molec_dict) ==
    LET matches == CoolingMatches(s, molec_dict) IN
    IF matches = {} THEN <<s, FALSE>>
    ELSE LET id == Min(matches) IN
         IF id \notin s.new_entries
         THEN <<deleteCoolingId(s, id), FALSE>>
         ELSE <<updateModel([s EXCEPT !.model_id = id], NONE), TRUE>>

\* A lookup that reuses a matched entry in every mode
checkCoolingDatabase_neverReplaces(s, molec_dict) ==
    LET matches == CoolingMatches(s, molec_dict) IN
    IF matches = {} THEN <<s, FALSE>>
    ELSE <<updateModel([s EXCEPT !.model_id = Min(matches)], NONE), TRUE>>

checkCoolingDatabase(s, molec_dict) ==
    LET matches == CoolingMatches(s, molec_dict) IN
    IF matches = {} THEN <<s, FALSE>>
    ELSE LET id == Min(matches) IN
         IF s.flags.replace_db_entry /\ id \notin s.new_entries
         THEN <<deleteCoolingId(s, id), FALSE>>
         ELSE <<updateModel([s EXCEPT !.model_id = id], NONE), TRUE>>

\* ------------------------------------------------------------------------
\* Gastronoom.doCooling.  cool_ok: the cooling run leaves coolfgr_all<id>.dat
\* ------------------------------------------------------------------------
\* No abundance table for H2O: no extra cooling keys
CoolingMolecDict == EmptyDict

\* A cooling stage that stores its entry whether or not the output file
\* is there
doCooling_storesAnyway(s, cool_ok) ==
    LET chk == checkCoolingDatabase(s, CoolingMolecDict)
        s1 == chk[1]
        model_bool == chk[2]
    IN IF model_bool THEN <<s1, TRUE, FALSE>>
       ELSE LET s2 == IF ~s1.flags.skip_cooling
                      THEN Log(s1, Event("exec", "cooling", s1.model_id, 0))
                      ELSE s1
                isfile == ~s1.flags.skip_cooling /\ cool_ok
            IN <<Log([s2 EXCEPT !.cool_db =
                            Put(@, s2.model_id,
                                s2.command_list @@ CoolingMolecDict)],
                     Event("sync", "cool_db", s2.model_id, 0)),
                 FALSE, isfile>>

doCooling(s, cool_ok) ==
    LET chk == checkCoolingDatabase(s, CoolingMolecDict)
        s1 == chk[1]
        model_bool == chk[2]
    IN IF model_bool THEN <<s1, TRUE, FALSE>>
       ELSE LET s2 == IF ~s1.flags.skip_cooling
                      THEN Log(s1, Event("exec", "cooling", s1.model_id, 0))
                      ELSE s1
                isfile == ~s1.flags.skip_cooling /\ cool_ok
            IN IF isfile
               THEN <<Log([s2 EXCEPT !.cool_db =
                                Put(@, s2.model_id,
                                    s2.command_list @@ CoolingMolecDict)],
                          Event("sync", "cool_db", s2.model_id, 0)),
                      FALSE, TRUE>>
               ELSE <<[s2 EXCEPT !.model_id = EMPTY], FALSE, FALSE>>

\* ------------------------------------------------------------------------
\* Gastronoom.doGastronoom
\* ------------------------------------------------------------------------
MakeCommandList(id, pars) ==
    LET base == [k \in IdKeys \cup {"TEMPERATURE_EPSILON"} |->
                    IF k \in IdKeys THEN id
                    ELSE pars.TEMPERATURE_EPSILON_GAS]
    IN IF pars.TEMPERATURE_EPSILON2_GAS # 0
       THEN Put(base, "TEMPERATURE_EPSILON2", pars.TEMPERATURE_EPSILON2_GAS)
       ELSE base

\* A doGastronoom that keeps the new model id after a failed cooling run
doGastronoom_keepsId(s, pars, ml, tl, cool_ok) ==
    LET s1 == IF s.model_id # EMPTY
              THEN [s EXCEPT !.new_entries = @ \cup {s.model_id}]
              ELSE s
        id == makeNewId(s1)
        s2 == [AfterNewId(s1) EXCEPT !.model_id = id,
                                     !.trans_list = tl,
                                     !.molec_list = ml,
                                     !.command_list = MakeCommandList(id, pars)]
        r == doCooling(s2, cool_ok)
    IN <<[r[1] EXCEPT !.model_id = IF @ = EMPTY THEN id ELSE @], r[2], r[3]>>

doGastronoom(s, pars, ml, tl, cool_ok) ==
    LET s1 == IF s.model_id # EMPTY
              THEN [s EXCEPT !.new_entries = @ \cup {s.model_id}]
              ELSE s
        id == makeNewId(s1)
        s2 == [AfterNewId(s1) EXCEPT !.model_id = id,
                                     !.trans_list = tl,
                                     !.molec_list = ml,
                                     !.command_list = MakeCommandList(id, pars)]
    IN doCooling(s2, cool_ok)

\* The two errors of a star's input that doGastronoom or doCooling raise
\* for: MDOT_MODE is OTHER and R_POINTS_MASS_LOSS is missing (KeyError),
\* 12C16O comes with an abundance table (IOError)
ConfigErrors == {"R_POINTS_MASS_LOSS", "MOLECULE_TABLE"}

\* A doGastronoom that raises only when doCooling has returned
doGastronoomRaises_late(s, pars, ml, tl, error) ==
    [doGastronoom(s, pars, ml, tl, TRUE)[1] EXCEPT !.raised = TRUE]

\* doGastronoom(star) for a star with one of the two errors: the KeyError
\* leaves the command list with the keys set before it, the IOError comes
\* first thing in doCooling
doGastronoomRaises(s, pars, ml, tl, error) ==
    LET s1 == IF s.model_id # EMPTY
              THEN [s EXCEPT !.new_entries = @ \cup {s.model_id}]
              ELSE s
        id == makeNewId(s1)
    IN [AfterNewId(s1) EXCEPT
            !.model_id = id,
            !.trans_list = tl,
            !.molec_list = ml,
            !.command_list = IF error = "R_POINTS_MASS_LOSS"
                             THEN [k \in IdKeys |-> id]
                             ELSE MakeCommandList(id, pars),
            !.raised = TRUE]

\* ------------------------------------------------------------------------
\* Molecule.makeDict, Molecule.setModelId
\* ------------------------------------------------------------------------
MolecMakeDict(molec) ==
    [MOLECULE |-> molec.molecule, ITERA |-> molec.itera,
     ABUN_MOLEC |-> molec.abun_molec]

setMolecId(s, i, id) == [s EXCEPT !.molec_list[i].model_id = id]

MlineKeywords(molecule) ==
    IF molecule \in no_ab_molecs THEN mline_keywords \ abun_keywords
    ELSE mline_keywords

\* ------------------------------------------------------------------------
\* Gastronoom.checkMlineDatabase: <<new state, model_bools>>
\* ------------------------------------------------------------------------
\* A lookup that never finds a stored molecule
MlineHits_none(s, molec) == {}

\* The molec ids under the cooling id that hold this molecule name and
\* whose stored dict matches
MlineHits(s, molec) ==
    {k \in DOMAIN s.ml_db[s.model_id] :
        /\ has_key(s.ml_db[s.model_id][k], molec.molecule)
        /\ compareCommandLists(MolecMakeDict(molec),
                               s.ml_db[s.model_id][k][molec.molecule],
                               MlineKeywords(molec.molecule))}

\* A lookup that never finds a molec id to reuse
MlineFreeSlots_none(s, molec) == {}

\* The molec ids under the cooling id that do not hold this molecule name
MlineFreeSlots(s, molec) ==
    {k \in DOMAIN s.ml_db[s.model_id] :
        ~has_key(s.ml_db[s.model_id][k], molec.molecule)}

\* A pass that makes a new molec id for every molecule that finds none to
\* reuse
checkMlineStep_newIdEach(acc, i) ==
    LET s == acc.s
        molec == s.molec_list[i]
        hits == MlineHits(s, molec)
        free == {k \in MlineFreeSlots(s, molec) : k # acc.new_molec_id}
    IN IF hits # {}
       THEN [acc EXCEPT !.s = setMolecId(s, i, Min(hits)),
                        !.model_bools = Append(@, TRUE)]
       ELSE IF molec.model_id # NONE THEN acc
       ELSE IF free # {}
            THEN [acc EXCEPT !.s = setMolecId(s, i, Min(free)),
                             !.model_bools = Append(@, FALSE)]
            ELSE LET new == makeNewId(s)
                     s1 == Log(Log(AfterNewId(s),
                                   Event("makeIdLog", "cooling", new,
                                         s.model_id)),
                               Event("copyOutput", "mline", new, s.model_id))
                     s2 == [s1 EXCEPT !.ml_db[s.model_id] =
                                            Put(@, new, EmptyDict)]
                 IN [s |-> setMolecId(s2, i, new),
                     model_bools |-> Append(acc.model_bools, FALSE),
                     new_molec_id |-> new]

\* One pass of the loop over self.molec_list.
\* acc = [s, model_bools, new_molec_id]
checkMlineStep(acc, i) ==
    LET s == acc.s
        molec == s.molec_list[i]
        hits == MlineHits(s, molec)
    IN IF hits # {}
       THEN [acc EXCEPT !.s = setMolecId(s, i, Min(hits)),
                        !.model_bools = Append(@, TRUE)]
       ELSE IF molec.model_id # NONE THEN acc
       ELSE LET free == MlineFreeSlots(s, molec) IN
            IF free # {}
            THEN [acc EXCEPT !.s = setMolecId(s, i, Min(free)),
                             !.model_bools = Append(@, FALSE)]
            ELSE IF acc.new_molec_id = EMPTY
            THEN LET new == makeNewId(s)
                     s1 == Log(Log(AfterNewId(s),
                                   Event("makeIdLog", "cooling", new,
                                         s.model_id)),
                               Event("copyOutput", "mline", new, s.model_id))
                     s2 == [s1 EXCEPT !.ml_db[s.model_id] =
                                            Put(@, new, EmptyDict)]
                 IN [s |-> setMolecId(s2, i, new),
                     model_bools |-> Append(acc.model_bools, FALSE),
                     new_molec_id |-> new]
            ELSE [acc EXCEPT !.s = setMolecId(s, i, acc.new_molec_id),
                             !.model_bools = Append(@, FALSE)]

RECURSIVE checkMlineLoop(_, _)
checkMlineLoop(acc, i) ==
    IF i > Len(acc.s.molec_list) THEN acc
    ELSE checkMlineLoop(checkMlineStep(acc, i), i + 1)

\* A lookup that leaves the handle on the mline store open
checkMlineDatabase_keepsOpen(s) ==
    IF ~has_key(s.ml_db, s.model_id)
    THEN <<[s EXCEPT !.molec_list =
                        [i \in DOMAIN @ |-> [@[i] EXCEPT !.model_id = s.model_id]],
                     !.ml_db = Put(@, s.model_id,
                                   Put(EmptyDict, s.model_id, EmptyDict))],
           [i \in DOMAIN s.molec_list |-> FALSE]>>
    ELSE LET s0 == Log(s, Event("open", "ml_db", 0, 0))
             acc == checkMlineLoop([s |-> s0, model_bools |-> << >>,
                                    new_molec_id |-> EMPTY], 1)
         IN <<Log(acc.s, Event("sync", "ml_db", 0, 0)), acc.model_bools>>

checkMlineDatabase(s) ==
    IF ~has_key(s.ml_db, s.model_id)
    THEN <<[s EXCEPT !.molec_list =
                        [i \in DOMAIN @ |-> [@[i] EXCEPT !.model_id = s.model_id]],
                     !.ml_db = Put(@, s.model_id,
                                   Put(EmptyDict, s.model_id, EmptyDict))],
           [i \in DOMAIN s.molec_list |-> FALSE]>>
    ELSE LET s0 == Log(s, Event("open", "ml_db", 0, 0))
             acc == checkMlineLoop([s |-> s0, model_bools |-> << >>,
                                    new_molec_id |-> EMPTY], 1)
         IN <<Log(Log(acc.s, Event("close", "ml_db", 0, 0)),
                  Event("sync", "ml_db", 0, 0)),
              acc.model_bools>>

\* ------------------------------------------------------------------------
\* Gastronoom.doMline.  counts[i]: the number of ml*<id>_<molecule>.dat
\* files found after the mline run for molecule number i
\* ------------------------------------------------------------------------
MlineFilesNeeded == 3

\* A run that counts as successful with three files or more
doMlineStep_atLeastThree(s, i, model_bool, nfiles) ==
    IF s.raised \/ model_bool THEN s
    ELSE LET molec == s.molec_list[i]
             s0 == Log(updateModel(s, molec.model_id),
                       Event("exec", "mline", molec.model_id, i))
             s1 == Log(s0, GlobEvent("mline", molec.model_id, i, nfiles))
         IN IF nfiles >= MlineFilesNeeded
            THEN IF has_key(s1.ml_db, s1.model_id)
                    /\ has_key(s1.ml_db[s1.model_id], molec.model_id)
                 THEN Log([s1 EXCEPT !.ml_db[s1.model_id][molec.model_id] =
                                        Put(@, molec.molecule,
                                            MolecMakeDict(molec))],
                          Event("sync", "ml_db", molec.model_id, i))
                 ELSE [s1 EXCEPT !.raised = TRUE]
            ELSE setMolecId(s1, i, EMPTY)

doMlineStep(s, i, model_bool, nfiles) ==
    IF s.raised \/ model_bool THEN s
    ELSE LET molec == s.molec_list[i]
             s0 == Log(updateModel(s, molec.model_id),
                       Event("exec", "mline", molec.model_id, i))
             s1 == Log(s0, GlobEvent("mline", molec.model_id, i, nfiles))
         IN IF nfiles = MlineFilesNeeded
            THEN IF has_key(s1.ml_db, s1.model_id)
                    /\ has_key(s1.ml_db[s1.model_id], molec.model_id)
                 THEN Log([s1 EXCEPT !.ml_db[s1.model_id][molec.model_id] =
                                        Put(@, molec.molecule,
                                            MolecMakeDict(molec))],
                          Event("sync", "ml_db", molec.model_id, i))
                 ELSE [s1 EXCEPT !.raised = TRUE]
            ELSE setMolecId(s1, i, EMPTY)

RECURSIVE doMlineLoop(_, _, _, _)
doMlineLoop(s, model_bools, counts, i) ==
    IF i > Len(s.molec_list) \/ i > Len(model_bools) THEN s
    ELSE doMlineLoop(doMlineStep(s, i, model_bools[i], counts[i]),
                     model_bools, counts, i + 1)

MolecIds(s) == {s.molec_list[i].model_id : i \in DOMAIN s.molec_list}

\* A mline stage in which one failed molecule empties the id of every
\* molecule of the batch
doMline_failsBatch(s, counts) ==
    LET chk == checkMlineDatabase(s)
        s1 == doMlineLoop(chk[1], chk[2], counts, 1)
        s2 == IF s1.raised THEN s1
              ELSE IF EMPTY \in MolecIds(s1)
              THEN [s1 EXCEPT !.model_id = EMPTY,
                              !.molec_list =
                                 [i \in DOMAIN @ |->
                                    [@[i] EXCEPT !.model_id = EMPTY]]]
              ELSE IF s1.flags.vic /\ s1.flags.sphinx
              THEN Log(s1, Event("vic.addModel", "mline", s1.model_id, 0))
              ELSE s1
    IN <<s2, chk[2]>>

\* A mline stage that goes on when every molecule has failed
doMline_neverAborts(s, counts) ==
    LET chk == checkMlineDatabase(s)
        s1 == doMlineLoop(chk[1], chk[2], counts, 1)
        s2 == IF s1.raised THEN s1
              ELSE IF s1.flags.vic /\ s1.flags.sphinx
              THEN Log(s1, Event("vic.addModel", "mline", s1.model_id, 0))
              ELSE s1
    IN <<s2, chk[2]>>

doMline(s, counts) ==
    LET chk == checkMlineDatabase(s)
        s1 == doMlineLoop(chk[1], chk[2], counts, 1)
        s2 == IF s1.raised THEN s1
              ELSE IF MolecIds(s1) = {EMPTY}
              THEN [s1 EXCEPT !.model_id = EMPTY]
              ELSE IF s1.flags.vic /\ s1.flags.sphinx
              THEN Log(s1, Event("vic.addModel", "mline", s1.model_id, 0))
              ELSE s1
    IN <<s2, chk[2]>>

\* ------------------------------------------------------------------------
\* Transition: str(trans), makeDict, setModelId
\* ------------------------------------------------------------------------
TransMolecule(s, trans) == s.molec_list[trans.molecule]

TransStr(s, trans) == TransKey(TransMolecule(s, trans).molecule, trans.tname)

\* A dict that never carries IN_PROGRESS
TransMakeDict_noFlag(s, trans, in_progress) ==
    [TRANSITION |-> TransStr(s, trans), N_QUAD |-> trans.n_quad]

\* Transition.makeDict(in_progress)
TransMakeDict(s, trans, in_progress) ==
    LET d == [TRANSITION |-> TransStr(s, trans), N_QUAD |-> trans.n_quad]
    IN IF in_progress THEN Put(d, "IN_PROGRESS", 1) ELSE d

setTransId(s, i, id) == [s EXCEPT !.trans_list[i].model_id = id]

\* A transition remembered in self.trans_in_progress: a transition of the
\* current star (live, by its place in trans_list) or one of an earlier
\* star, whose molecule id and signature no longer change
LiveRef(i) == [live |-> TRUE, idx |-> i, molid |-> EMPTY, tid |-> EMPTY,
               key |-> <<"", "">>]

StaleRef(s, r) ==
    IF ~r.live THEN r
    ELSE LET trans == s.trans_list[r.idx] IN
         [live |-> FALSE, idx |-> 0,
          molid |-> TransMolecule(s, trans).model_id,
          tid |-> trans.model_id, key |-> TransStr(s, trans)]

RefMolId(s, r) ==
    IF r.live THEN TransMolecule(s, s.trans_list[r.idx]).model_id ELSE r.molid
RefTransId(s, r) == IF r.live THEN s.trans_list[r.idx].model_id ELSE r.tid
RefStr(s, r) == IF r.live THEN TransStr(s, s.trans_list[r.idx]) ELSE r.key

addTransInProgress(s, i) ==
    [s EXCEPT !.trans_in_progress = Append(@, LiveRef(i))]

\* ------------------------------------------------------------------------
\* Paths into the sphinx database
\* ------------------------------------------------------------------------
HasTransId(db, cid, mid, tid) ==
    /\ has_key(db, cid)
    /\ has_key(db[cid], mid)
    /\ has_key(db[cid][mid], tid)

HasLeaf(db, cid, mid, tid, key) ==
    /\ HasTransId(db, cid, mid, tid)
    /\ has_key(db[cid][mid][tid], key)

\* ------------------------------------------------------------------------
\* Gastronoom.checkSphinxDatabase
\* ------------------------------------------------------------------------
\* A lookup that never finds a stored transition
SphinxHits_none(s, molec_id, trans) == {}

SphinxHits(s, molec_id, trans) ==
    {k \in DOMAIN s.sph_db[s.model_id][molec_id] :
        /\ has_key(s.sph_db[s.model_id][molec_id][k], TransStr(s, trans))
        /\ compareCommandLists(TransMakeDict(s, trans, FALSE),
                               s.sph_db[s.model_id][molec_id][k]
                                       [TransStr(s, trans)],
                               sphinx_keywords)}

SphinxFreeSlots(s, molec_id, trans) ==
    {k \in DOMAIN s.sph_db[s.model_id][molec_id] :
        ~has_key(s.sph_db[s.model_id][molec_id][k], TransStr(s, trans))}

\* One pass of the loop over self.trans_list for a transition whose
\* molecule has a model id.  acc = [s, new_trans_id, copied]
checkSphinxStepWithMolec(acc, i) ==
    LET s == acc.s
        trans == s.trans_list[i]
        key == TransStr(s, trans)
        molec_id == TransMolecule(s, trans).model_id
        cid == s.model_id
    IN IF ~has_key(s.sph_db[cid], molec_id)
       THEN [acc EXCEPT !.s =
                [setTransId(s, i, molec_id) EXCEPT
                    !.sph_db[cid] =
                        Put(@, molec_id,
                            Put(EmptyDict, molec_id,
                                Put(EmptyDict, key,
                                    TransMakeDict(s, trans, TRUE)))),
                    !.trans_bools = Append(@, FALSE)]]
       ELSE LET hits == SphinxHits(s, molec_id, trans) IN
       IF hits # {}
       THEN LET trans_id == Min(hits)
                s1 == [setTransId(s, i, trans_id) EXCEPT
                            !.trans_bools = Append(@, TRUE)]
                db_trans_dict == s.sph_db[cid][molec_id][trans_id][key]
            IN IF has_key(db_trans_dict, "IN_PROGRESS")
               THEN IF s.flags.vic
                    THEN [acc EXCEPT !.s =
                            Log(s1, Event("vic.addTransInProgress", "sphinx",
                                          trans_id, i))]
                    ELSE [acc EXCEPT !.s = addTransInProgress(s1, i)]
               ELSE [acc EXCEPT !.s = s1]
       ELSE IF trans.model_id # NONE THEN acc
       ELSE LET free == SphinxFreeSlots(s, molec_id, trans)
                alloc == free = {} /\ acc.new_trans_id = EMPTY
                trans_id == IF free # {} THEN Min(free)
                            ELSE IF alloc THEN makeNewId(s)
                            ELSE acc.new_trans_id
                s1 == IF alloc
                      THEN Log(AfterNewId(s),
                               Event("makeIdLog", "sphinx", trans_id, molec_id))
                      ELSE s
                s2 == IF ~has_key(s1.sph_db[cid][molec_id], trans_id)
                      THEN [s1 EXCEPT !.sph_db[cid][molec_id] =
                                            Put(@, trans_id, EmptyDict)]
                      ELSE s1
                docopy == trans.molecule \notin acc.copied
                s3 == IF docopy
                      THEN Log(s2, Event("copyOutput", "sphinx", trans_id,
                                         molec_id))
                      ELSE s2
                s4 == [setTransId(s3, i, trans_id) EXCEPT
                          !.sph_db[cid][molec_id][trans_id] =
                                Put(@, key, TransMakeDict(s, trans, TRUE)),
                          !.trans_bools = Append(@, FALSE)]
            IN [s |-> s4,
                new_trans_id |-> IF free = {} THEN trans_id
                                 ELSE acc.new_trans_id,
                copied |-> acc.copied \cup {trans.molecule}]

\* A pass that does not look at the molecule's model id first
checkSphinxStep_noEmptyCheck(acc, i) ==
    checkSphinxStepWithMolec(acc, i)

\* One pass of the loop over self.trans_list
checkSphinxStep(acc, i) ==
    LET s == acc.s
        molec_id == TransMolecule(s, s.trans_list[i]).model_id
    IN IF molec_id = NONE \/ molec_id = EMPTY
       THEN [acc EXCEPT !.s = [setTransId(s, i, EMPTY) EXCEPT
                                    !.trans_bools = Append(@, FALSE)]]
       ELSE checkSphinxStepWithMolec(acc, i)

\* The loop over self.trans_list, from transition i up to transition n
RECURSIVE checkSphinxLoop(_, _, _)
checkSphinxLoop(acc, i, n) ==
    IF i > n THEN acc
    ELSE checkSphinxLoop(checkSphinxStep(acc, i), i + 1, n)

\* The session after the lookup has handled the first n transitions
checkSphinxUpTo(s, n) ==
    LET s0 == IF ~has_key(s.sph_db, s.model_id)
              THEN [s EXCEPT !.sph_db = Put(@, s.model_id, EmptyDict)]
              ELSE s
    IN checkSphinxLoop([s |-> Log(s0, Event("open", "sph_db", 0, 0)),
                        new_trans_id |-> EMPTY, copied |-> {}], 1, n).s

checkSphinxDatabase(s) ==
    Log(Log(checkSphinxUpTo(s, Len(s.trans_list)),
            Event("close", "sph_db", 0, 0)),
        Event("sync", "sph_db", 0, 0))

\* ------------------------------------------------------------------------
\* Sphinx output files on disk
\* ------------------------------------------------------------------------
SphinxFilesNeeded == 2

NFiles(files, tid, key) ==
    IF has_key(files, <<tid, key>>) THEN files[<<tid, key>>] ELSE 0

SetFiles(files, tid, key, n) ==
    IF n = 0 THEN Del(files, <<tid, key>>) ELSE Put(files, <<tid, key>>, n)

\* ------------------------------------------------------------------------
\* Gastronoom.checkSphinxOutput
\* ------------------------------------------------------------------------
\* An output check that accepts two files or more
checkSphinxOutput_atLeastTwo(s, i) ==
    LET trans == s.trans_list[i]
        key == TransStr(s, trans)
        mid == TransMolecule(s, trans).model_id
        tid == trans.model_id
        cid == s.model_id
        nfiles == NFiles(s.sphfiles, tid, key)
        s1 == Log(s, GlobEvent("sphinx", tid, i, nfiles))
        s2 == Log(s1, Event("print", "sphinx", tid, i))
    IN IF ~HasLeaf(s.sph_db, cid, mid, tid, key)
       THEN [s1 EXCEPT !.raised = TRUE]
       ELSE IF nfiles >= SphinxFilesNeeded
       THEN [s2 EXCEPT !.sph_db[cid][mid][tid][key] = Del(@, "IN_PROGRESS")]
       ELSE [setTransId(s2, i, EMPTY) EXCEPT
                !.sph_db[cid][mid][tid] = Del(@, key)]

checkSphinxOutput(s, i) ==
    LET trans == s.trans_list[i]
        key == TransStr(s, trans)
        mid == TransMolecule(s, trans).model_id
        tid == trans.model_id
        cid == s.model_id
        nfiles == NFiles(s.sphfiles, tid, key)
        s1 == Log(s, GlobEvent("sphinx", tid, i, nfiles))
        s2 == Log(s1, Event("print", "sphinx", tid, i))
    IN IF ~HasLeaf(s.sph_db, cid, mid, tid, key)
       THEN [s1 EXCEPT !.raised = TRUE]
       ELSE IF nfiles = SphinxFilesNeeded
       THEN [s2 EXCEPT !.sph_db[cid][mid][tid][key] = Del(@, "IN_PROGRESS")]
       ELSE [setTransId(s2, i, EMPTY) EXCEPT
                !.sph_db[cid][mid][tid] = Del(@, key)]

\* ------------------------------------------------------------------------
\* Gastronoom.finalizeSphinx
\* ------------------------------------------------------------------------
TransIds(s) == {s.trans_list[i].model_id : i \in DOMAIN s.trans_list}

setRefId(s, n, id) ==
    LET r == s.trans_in_progress[n] IN
    IF r.live THEN setTransId(s, r.idx, id)
    ELSE [s EXCEPT !.trans_in_progress[n].tid = id]

\* A finalization that leaves the transitions in progress their ids
finalizeStep_keepsId(s, n) ==
    IF s.raised THEN s
    ELSE LET r == s.trans_in_progress[n]
         IN IF ~HasTransId(s.sph_db, s.model_id, RefMolId(s, r),
                           RefTransId(s, r))
            THEN [s EXCEPT !.raised = TRUE]
            ELSE s

finalizeStep(s, n) ==
    IF s.raised THEN s
    ELSE LET r == s.trans_in_progress[n]
             mid == RefMolId(s, r)
             tid == RefTransId(s, r)
             key == RefStr(s, r)
         IN IF ~HasTransId(s.sph_db, s.model_id, mid, tid)
            THEN [s EXCEPT !.raised = TRUE]
            ELSE IF \/ ~has_key(s.sph_db[s.model_id][mid][tid], key)
                    \/ has_key(s.sph_db[s.model_id][mid][tid][key],
                               "IN_PROGRESS")
            THEN setRefId(s, n, EMPTY)
            ELSE s

RECURSIVE finalizeLoop(_, _)
finalizeLoop(s, n) ==
    IF n > Len(s.trans_in_progress) THEN s
    ELSE finalizeLoop(finalizeStep(s, n), n + 1)

finalizeSphinx(s) ==
    LET s1 == IF TransIds(s) = {EMPTY} THEN [s EXCEPT !.model_id = EMPTY]
              ELSE s
    IN finalizeLoop(s1, 1)

\* ------------------------------------------------------------------------
\* Gastronoom.doSphinx.  counts[i]: the number of sphinx output files on
\* disk for transition number i after a sphinx run for it
\* ------------------------------------------------------------------------
\* A step that syncs the sphinx database before the solver is called
doSphinxStep_syncsFirst(s, i, trans_bool, nfiles) ==
    LET trans == s.trans_list[i]
        key == TransStr(s, trans)
        mid == TransMolecule(s, trans).model_id
        tid == trans.model_id
    IN IF s.raised \/ trans_bool \/ tid = NONE \/ tid = EMPTY THEN s
       ELSE IF ~s.flags.sphinx
       THEN IF HasLeaf(s.sph_db, s.model_id, mid, tid, key)
            THEN [setTransId(s, i, EMPTY) EXCEPT
                    !.sph_db[s.model_id][mid][tid] = Del(@, key)]
            ELSE [s EXCEPT !.raised = TRUE]
       ELSE IF s.flags.vic
       THEN Log(s, Event("vic.addTrans", "sphinx", tid, i))
       ELSE IF s.flags.recover_sphinxfiles
       THEN checkSphinxOutput(s, i)
       ELSE LET s1 == Log(Log(updateModel(s, tid),
                              Event("sync", "sph_db", tid, i)),
                          Event("exec", "sphinx", tid, i))
                s2 == [s1 EXCEPT !.sphfiles = SetFiles(@, tid, key, nfiles)]
            IN checkSphinxOutput(s2, i)

doSphinxStep(s, i, trans_bool, nfiles) ==
    LET trans == s.trans_list[i]
        key == TransStr(s, trans)
        mid == TransMolecule(s, trans).model_id
        tid == trans.model_id
    IN IF s.raised \/ trans_bool \/ tid = NONE \/ tid = EMPTY THEN s
       ELSE IF ~s.flags.sphinx
       THEN IF HasLeaf(s.sph_db, s.model_id, mid, tid, key)
            THEN [setTransId(s, i, EMPTY) EXCEPT
                    !.sph_db[s.model_id][mid][tid] = Del(@, key)]
            ELSE [s EXCEPT !.raised = TRUE]
       ELSE IF s.flags.vic
       THEN Log(s, Event("vic.addTrans", "sphinx", tid, i))
       ELSE IF s.flags.recover_sphinxfiles
       THEN checkSphinxOutput(s, i)
       ELSE LET s1 == Log(updateModel(s, tid),
                          Event("exec", "sphinx", tid, i))
                s2 == [s1 EXCEPT !.sphfiles = SetFiles(@, tid, key, nfiles)]
                s3 == checkSphinxOutput(s2, i)
            IN IF s3.raised THEN s3
               ELSE Log(s3, Event("sync", "sph_db", tid, i))

RECURSIVE doSphinxLoop(_, _, _)
doSphinxLoop(s, counts, i) ==
    IF i > Len(s.trans_list) \/ i > Len(s.trans_bools) THEN s
    ELSE doSphinxLoop(doSphinxStep(s, i, s.trans_bools[i], counts[i]),
                      counts, i + 1)

\* The pairs zip(self.trans_bools, self.trans_list)
ZipLen(s) == IF Len(s.trans_bools) < Len(s.trans_list)
             THEN Len(s.trans_bools) ELSE Len(s.trans_list)

mline_not_available(s) ==
    {TransMolecule(s, s.trans_list[i]).model_id :
        i \in {j \in 1..ZipLen(s) : ~s.trans_bools[j]}} = {EMPTY}

FalseInTransBools(s) == \E j \in DOMAIN s.trans_bools : ~s.trans_bools[j]

\* The end of doSphinx: finalizeSphinx, the sync of the sphinx database,
\* the message to the scheduler
doSphinxFinalize(s) == IF s.raised THEN s ELSE finalizeSphinx(s)

doSphinxSync(s) ==
    IF s.raised THEN s
    ELSE IF ~s.flags.sphinx \/ s.flags.recover_sphinxfiles
    THEN Log(s, Event("sync", "sph_db", 0, 0))
    ELSE s

doSphinxVic(s) ==
    IF s.raised \/ ~(s.flags.vic /\ s.flags.sphinx) THEN s
    ELSE IF FalseInTransBools(s) /\ ~mline_not_available(s)
    THEN Log(s, Event("vic.queueModel", "sphinx", 0, 0))
    ELSE Log(s, Event("vic.reset", "sphinx", 0, 0))

doSphinx(s, counts) ==
    doSphinxVic(
        doSphinxSync(
            doSphinxFinalize(
                doSphinxLoop(checkSphinxDatabase(s), counts, 1))))

\* ------------------------------------------------------------------------
\* The caller of the stage drivers (the modeling manager): a request is
\* doGastronoom, then doMline, then doSphinx, each later stage only while
\* the session still has a model id
\* ------------------------------------------------------------------------
ProceedToMline == pc = "doGastronoom" /\ model_id # EMPTY

ProceedToSphinx == pc = "doMline" /\ model_id # EMPTY

RequestEnded ==
    \/ pc \in {"init", "doSphinx"}
    \/ pc \in {"doGastronoom", "doMline"} /\ model_id = EMPTY

\* A new request may also follow doGastronoom directly (an iteration of the
\* cooling model)
CanStartRequest == ~raised /\ (RequestEnded \/ pc = "doGastronoom")

NoLast == [model_bool |-> FALSE, isfile |-> FALSE, model_bools |-> << >>,
           fresh_id |-> EMPTY, nbools |-> 0]

Commit(r) ==
    /\ r.nextId <= MaxId + 1
    /\ cool_db' = r.cool_db
    /\ ml_db' = r.ml_db
    /\ sph_db' = r.sph_db
    /\ sphfiles' = r.sphfiles
    /\ nextId' = r.nextId
    /\ model_id' = r.model_id
    /\ new_entries' = r.new_entries
    /\ command_list' = r.command_list
    /\ molec_list' = r.molec_list
    /\ trans_list' = r.trans_list
    /\ trans_bools' = r.trans_bools
    /\ trans_in_progress' = r.trans_in_progress
    /\ raised' = r.raised
    /\ events' = r.events

Init ==
    /\ cool_db = EmptyDict
    /\ ml_db = EmptyDict
    /\ sph_db = EmptyDict
    /\ sphfiles = EmptyDict
    /\ nextId = 1
    /\ flags \in SessionFlags
    /\ model_id = InitModelId
    /\ new_entries = {}
    /\ command_list = EmptyDict
    /\ molec_list = << >>
    /\ trans_list = << >>
    /\ trans_bools = << >>
    /\ trans_in_progress = << >>
    /\ pc = "init"
    /\ raised = FALSE
    /\ events = << >>
    /\ last = NoLast
    /\ nreq = 0
    /\ nsess = 1
    /\ session_ids = {}
    /\ folders = EmptyDict

\* Gastronoom(...): a new session on the same three databases
NewSessionOf(F, maxsess) ==
    /\ ~raised
    /\ RequestEnded
    /\ pc # "init"
    /\ nsess < maxsess
    /\ \E f \in F : flags' = f
    /\ model_id' = InitModelId
    /\ new_entries' = {}
    /\ trans_bools' = << >>
    /\ trans_in_progress' = << >>
    /\ command_list' = EmptyDict
    /\ pc' = "init"
    /\ events' = << >>
    /\ last' = NoLast
    /\ nsess' = nsess + 1
    /\ session_ids' = {}
    /\ UNCHANGED <<cool_db, ml_db, sph_db, sphfiles, nextId, molec_list,
                   trans_list, raised, nreq, folders>>

\* doGastronoom(star) for inputs pars, ml, tl
Request(s, pars, ml, tl) ==
    \E cool_ok \in CoolingOutcomes :
        \E r \in {doGastronoom(s, pars, ml, tl, cool_ok)} :
        /\ Commit(r[1])
        /\ last' = [NoLast EXCEPT !.model_bool = r[2], !.isfile = r[3],
                                  !.fresh_id = s.nextId]
        /\ pc' = "doGastronoom"
        /\ nreq' = nreq + 1
        /\ session_ids' = session_ids \cup ({model_id'} \ {EMPTY})
        /\ UNCHANGED <<flags, nsess, folders>>

\* doGastronoom(star) with a star whose molecules and transitions are new
\* objects
NewStarRequest(P, ML, maxreq) ==
    /\ CanStartRequest
    /\ nreq < maxreq
    /\ \E pars \in P : \E ml \in ML : \E tl \in TransLists(ml) :
        Request([State EXCEPT !.trans_in_progress =
                    [n \in DOMAIN @ |-> StaleRef(State, @[n])]],
                pars, ml, tl)

\* doGastronoom(star) with the star of the previous request: the same
\* Molecule and Transition objects, the cooling parameters possibly changed
SameStarRequest(P, maxreq) ==
    /\ CanStartRequest
    /\ nreq < maxreq
    /\ nreq > 0
    /\ \E pars \in P : Request(State, pars, molec_list, trans_list)

\* doGastronoom(star) with a new star whose input has one of the two
\* errors
ConfigErrorRequest(P, ML, maxreq) ==
    /\ CanStartRequest
    /\ nreq < maxreq
    /\ \E error \in ConfigErrors : \E pars \in P : \E ml \in ML :
        \E tl \in TransLists(ml) :
        \E r \in {doGastronoomRaises(State, pars, ml, tl, error)} :
            Commit(r)
    /\ last' = [NoLast EXCEPT !.fresh_id = nextId]
    /\ pc' = "configError"
    /\ nreq' = nreq + 1
    /\ UNCHANGED <<flags, nsess, session_ids, folders>>

NewSession == NewSessionOf(SessionFlags, MaxSessions)

DoGastronoomNewStar == NewStarRequest(StarPars, MolecLists, MaxRequests)

DoGastronoomSameStar == SameStarRequest(StarPars, MaxRequests)

DoGastronoomConfigError == ConfigErrorRequest(StarPars, MolecLists, MaxRequests)

\* doMline(star), the mline runs leaving one of the numbers of files C
DoMlineOf(C) ==
    /\ ~raised
    /\ ProceedToMline
    /\ \E counts \in [DOMAIN molec_list -> C] :
        \E r \in {doMline(State, counts)} :
        /\ Commit(r[1])
        /\ last' = [NoLast EXCEPT !.model_bools = r[2]]
    /\ pc' = "doMline"
    /\ UNCHANGED <<flags, nreq, nsess, session_ids, folders>>

\* doSphinx(star), the sphinx runs leaving one of the numbers of files C
DoSphinxOf(C) ==
    /\ ~raised
    /\ ProceedToSphinx
    /\ \E counts \in [DOMAIN trans_list -> C] :
        \E r \in {doSphinx(State, counts)} : Commit(r)
    /\ last' = [NoLast EXCEPT !.nbools = Len(trans_bools)]
    /\ pc' = "doSphinx"
    /\ UNCHANGED <<flags, nreq, nsess, session_ids, folders>>

DoMline == DoMlineOf(MlineFileCounts)

DoSphinx == DoSphinxOf(SphinxFileCounts)

Next ==
    \/ NewSession
    \/ DoGastronoomNewStar
    \/ DoGastronoomSameStar
    \/ DoGastronoomConfigError
    \/ DoMline
    \/ DoSphinx

Spec == Init /\ [][Next]_vars

\* ------------------------------------------------------------------------
\* Properties
\* ------------------------------------------------------------------------
SolverEvents(evs) == {n \in DOMAIN evs : evs[n].ev = "exec"}

HasMolecEntry(db, cid, mid, name) ==
    /\ has_key(db, cid)
    /\ has_key(db[cid], mid)
    /\ has_key(db[cid][mid], name)

\* The cooling parameters of a command list
CoolingPars(cl) == [k \in DOMAIN cl \ IdKeys |-> cl[k]]

\* The stores hold a completed cooling result for the session's cooling
\* parameters under the session's model id
CoolingComplete ==
    /\ model_id # EMPTY
    /\ has_key(cool_db, model_id)
    /\ compareCommandLists(command_list, cool_db[model_id], cooling_keywords)

\* ... and a completed mline result for every molecule under the id the
\* molecule carries
MlineComplete ==
    \A i \in DOMAIN molec_list :
        LET m == molec_list[i] IN
        /\ HasMolecEntry(ml_db, model_id, m.model_id, m.molecule)
        /\ compareCommandLists(MolecMakeDict(m),
                               ml_db[model_id][m.model_id][m.molecule],
                               MlineKeywords(m.molecule))

\* ... and a completed sphinx result for every transition under the id the
\* transition carries
SphinxComplete ==
    \A j \in DOMAIN trans_list :
        LET t == trans_list[j]
            mid == molec_list[t.molecule].model_id
            key == TransStr(State, t)
        IN /\ HasLeaf(sph_db, model_id, mid, t.model_id, key)
           /\ sph_db[model_id][mid][t.model_id][key]
                = TransMakeDict(State, t, FALSE)

\* C1 (Idempotence): once every stage of a request has completed
\* successfully, a second request for the same configuration without
\* replace_db_entry resolves to the same cooling id, the same mline id for
\* every molecule and the same trans id for every transition, and no stage
\* of it invokes the external solver.
C1_Idempotence ==
    [][/\ ~raised
       /\ ~flags.replace_db_entry
       /\ flags' = flags
       /\ CoolingComplete /\ MlineComplete /\ SphinxComplete
       /\ CoolingPars(command_list') = CoolingPars(command_list)
       /\ molec_list # << >>
       /\ Len(molec_list') = Len(molec_list)
       /\ Len(trans_list') = Len(trans_list)
       /\ \A i \in DOMAIN molec_list :
            MolecMakeDict(molec_list'[i]) = MolecMakeDict(molec_list[i])
       /\ \A j \in DOMAIN trans_list :
            /\ trans_list'[j].molecule = trans_list[j].molecule
            /\ trans_list'[j].tname = trans_list[j].tname
            /\ trans_list'[j].n_quad = trans_list[j].n_quad
       => /\ model_id' = model_id
          /\ pc' # "doGastronoom" => molec_list' = molec_list
          /\ pc' = "doSphinx" => trans_list' = trans_list
          /\ SolverEvents(events') = {}]_vars

\* The molecule configurations stored under cooling id cid
StoredMolecs(db, cid) ==
    {m \in FreshMolecules :
        /\ has_key(db, cid)
        /\ \E k \in DOMAIN db[cid] :
            /\ has_key(db[cid][k], m.molecule)
            /\ compareCommandLists(MolecMakeDict(m), db[cid][k][m.molecule],
                                   MlineKeywords(m.molecule))}

\* The transition configurations stored under cooling id cid, each with the
\* molecule id it is stored under: <<molec id, molecule name, transition>>
StoredTrans(db, cid) ==
    {x \in Ids \X MoleculeNames \X
            [molecule : {1}, tname : TransNames, n_quad : {1, 2},
             model_id : {NONE}] :
        /\ has_key(db, cid)
        /\ has_key(db[cid], x[1])
        /\ \E k \in DOMAIN db[cid][x[1]] :
            /\ has_key(db[cid][x[1]][k], TransKey(x[2], x[3].tname))
            /\ db[cid][x[1]][k][TransKey(x[2], x[3].tname)].N_QUAD
                 = x[3].n_quad}

\* checkMlineDatabase by session s for molecule m alone under cooling id cid
MlineLookup(s, cid, m) ==
    checkMlineDatabase([s EXCEPT !.model_id = cid, !.molec_list = <<m>>])

\* checkSphinxDatabase by session s for the transition x alone
SphinxLookup(s, cid, x) ==
    checkSphinxDatabase(
        [s EXCEPT !.model_id = cid,
                  !.molec_list = <<[molecule |-> x[2], itera |-> 1,
                                    abun_molec |-> 1, model_id |-> x[1]]>>,
                  !.trans_list = <<x[3]>>,
                  !.trans_bools = << >>])

\* C2 (Cascading invalidation): when a cooling entry id is deleted, the
\* mline and sphinx nodes nested under id are gone as well, and a lookup
\* for any molecule or transition configuration that was stored under id
\* is a miss.
C2_CascadingInvalidation ==
    [][\A id \in DOMAIN cool_db :
         id \notin DOMAIN cool_db' =>
            /\ ~has_key(ml_db', id)
            /\ ~has_key(sph_db', id)
            /\ \A m \in StoredMolecs(ml_db, id) :
                 MlineLookup(State', id, m)[2] = <<FALSE>>
            /\ \A x \in StoredTrans(sph_db, id) :
                 SphinxLookup(State', id, x).trans_bools = <<FALSE>>]_vars

\* A cooling entry with completed mline and sphinx results nested under it
\* has just been deleted
C2_Witness ==
    \E n \in DOMAIN events :
        /\ events[n].ev = "deleteCoolingId"
        /\ ~has_key(cool_db, events[n].id)
        /\ \E k \in DOMAIN sphfiles :
            k[1] = events[n].id /\ sphfiles[k] = SphinxFilesNeeded

\* Transition number i of the session's list matches a leaf of the sphinx
\* database that carries IN_PROGRESS
InProgressHit(i) ==
    LET t == trans_list[i]
        mid == molec_list[t.molecule].model_id
        key == TransStr(State, t)
    IN /\ mid # EMPTY /\ mid # NONE
       /\ has_key(sph_db, model_id)
       /\ has_key(sph_db[model_id], mid)
       /\ SphinxHits(State, mid, t) # {}
       /\ has_key(sph_db[model_id][mid][Min(SphinxHits(State, mid, t))][key],
                  "IN_PROGRESS")

\* The events that start a sphinx calculation for transition number i:
\* a local solver run or handing the transition to the scheduler
SphinxStarts(evs, i) ==
    {n \in DOMAIN evs :
        /\ evs[n].ev \in {"exec", "vic.addTrans"}
        /\ evs[n].code = "sphinx"
        /\ evs[n].arg = i}

\* C3 (In-progress semantics): when a matching sphinx leaf carries
\* IN_PROGRESS, a request for the same transition records it as in
\* progress (locally or on the scheduler), starts no sphinx calculation for
\* it and creates no second leaf for it.
C3_InProgressSemantics ==
    [][pc' = "doSphinx" =>
        \A i \in DOMAIN trans_list :
            InProgressHit(i) =>
                LET t == trans_list[i]
                    mid == molec_list[t.molecule].model_id
                    key == TransStr(State, t)
                IN /\ IF flags.vic
                      THEN \E n \in DOMAIN events' :
                              /\ events'[n].ev = "vic.addTransInProgress"
                              /\ events'[n].arg = i
                      ELSE \E n \in DOMAIN trans_in_progress' :
                              trans_in_progress'[n] = LiveRef(i)
                   /\ SphinxStarts(events', i) = {}
                   /\ Cardinality({k \in DOMAIN sph_db'[model_id][mid] :
                                     has_key(sph_db'[model_id][mid][k], key)})
                        <= 1]_vars

\* The three stores of a session state
StoresOf(s) == <<s.cool_db, s.ml_db, s.sph_db>>

\* The session as doGastronoom hands it to checkCoolingDatabase in the step
\* that is being taken
PreCooling ==
    [State' EXCEPT !.cool_db = cool_db, !.ml_db = ml_db, !.sph_db = sph_db,
                   !.sphfiles = sphfiles,
                   !.model_id = last'.fresh_id,
                   !.command_list =
                        [k \in DOMAIN @ |-> IF k \in IdKeys
                                            THEN last'.fresh_id ELSE @[k]]]

\* The paths of a database down to the molecule id slots, the transition
\* id slots and the transition leaves
MolecSlots(db) == UNION {{<<c, m>> : m \in DOMAIN db[c]} : c \in DOMAIN db}

TransSlots(db) ==
    UNION {{<<x[1], x[2], t>> : t \in DOMAIN db[x[1]][x[2]]} :
                x \in MolecSlots(db)}

TransLeaves(db) ==
    UNION {{<<x[1], x[2], x[3], k>> : k \in DOMAIN db[x[1]][x[2]][x[3]]} :
                x \in TransSlots(db)}

\* C4 as stated (Lookup alone never mutates the store): each of the three
\* lookups leaves the cooling, mline and sphinx stores exactly as they
\* were, for hits and for misses, with and without replace mode.
C4_LookupNeverMutates ==
    [][/\ pc' = "doGastronoom" =>
            StoresOf(checkCoolingDatabase(PreCooling, CoolingMolecDict)[1])
                = StoresOf(State)
       /\ pc' = "doMline" =>
            StoresOf(checkMlineDatabase(State)[1]) = StoresOf(State)
       /\ pc' = "doSphinx" =>
            StoresOf(checkSphinxDatabase(State)) = StoresOf(State)]_vars

\* What checkCoolingDatabase does to the stores
CoolingLookupEffect ==
    LET lk == checkCoolingDatabase(PreCooling, CoolingMolecDict)
        matches == CoolingMatches(PreCooling, CoolingMolecDict)
    IN IF matches # {} /\ flags.replace_db_entry
                       /\ Min(matches) \notin new_entries'
       THEN /\ ~lk[2]
            /\ StoresOf(lk[1]) = <<Del(cool_db, Min(matches)),
                                   Del(ml_db, Min(matches)),
                                   Del(sph_db, Min(matches))>>
       ELSE StoresOf(lk[1]) = StoresOf(State)

\* What checkMlineDatabase does to the stores
MlineLookupEffect ==
    LET chk == checkMlineDatabase(State)
        db == chk[1].ml_db
    IN /\ chk[1].cool_db = cool_db
       /\ chk[1].sph_db = sph_db
       /\ \A c \in DOMAIN ml_db : has_key(db, c)
       /\ \A x \in MolecSlots(ml_db) :
            x \in MolecSlots(db) /\ db[x[1]][x[2]] = ml_db[x[1]][x[2]]
       /\ \A x \in MolecSlots(db) \ MolecSlots(ml_db) :
            db[x[1]][x[2]] = EmptyDict
       /\ (\A i \in DOMAIN chk[2] : chk[2][i]) /\ chk[2] # << >>
            => db = ml_db

\* What checkSphinxDatabase does to the stores
SphinxLookupEffect ==
    LET lk == checkSphinxDatabase(State)
        db == lk.sph_db
        n == Len(trans_bools)
    IN /\ lk.cool_db = cool_db
       /\ lk.ml_db = ml_db
       /\ \A c \in DOMAIN sph_db : has_key(db, c)
       /\ MolecSlots(sph_db) \subseteq MolecSlots(db)
       /\ TransSlots(sph_db) \subseteq TransSlots(db)
       /\ \A x \in TransLeaves(sph_db) :
            /\ x \in TransLeaves(db)
            /\ db[x[1]][x[2]][x[3]][x[4]] = sph_db[x[1]][x[2]][x[3]][x[4]]
       /\ \A x \in TransLeaves(db) \ TransLeaves(sph_db) :
            has_key(db[x[1]][x[2]][x[3]][x[4]], "IN_PROGRESS")
       /\ (/\ Len(lk.trans_bools) = n + Len(trans_list)
           /\ \A j \in (n + 1)..Len(lk.trans_bools) : lk.trans_bools[j])
            => db = sph_db

\* C4 (Lookup and the stores): no lookup changes or removes an entry that
\* exists, except that checkCoolingDatabase in replace mode deletes the
\* matched cooling entry, with the nodes nested under it, when that entry
\* is not in new_entries.  A lookup that misses does add to its own store:
\* checkMlineDatabase adds empty id slots, checkSphinxDatabase adds the leaf
\* of a missed transition marked IN_PROGRESS.  A lookup in which everything
\* hits leaves the three stores exactly as they were.
C4_LookupEffects ==
    [][/\ pc' = "doGastronoom" => CoolingLookupEffect
       /\ pc' = "doMline" => MlineLookupEffect
       /\ pc' = "doSphinx" => SphinxLookupEffect]_vars

\* A mline lookup has just hit for one molecule and missed for another
C4_Witness ==
    /\ pc = "doMline"
    /\ \E i, j \in DOMAIN last.model_bools :
        last.model_bools[i] /\ ~last.model_bools[j]

\* The cooling stage of the request in progress looked up, missed, and
\* found no output file afterwards
StageAFailed == pc = "doGastronoom" /\ ~last.model_bool /\ ~last.isfile

\* C5 (Failed cooling run): when the cooling run for a missed configuration
\* does not produce its output file, the cooling database holds no entry
\* for the newly made id and the session's model_id is the empty string.
C5_FailedCoolingLeavesNoEntry ==
    StageAFailed => ~has_key(cool_db, last.fresh_id) /\ model_id = EMPTY

\* The cooling solver has run for a new id and left no output file
C5_Witness ==
    /\ StageAFailed
    /\ \E n \in DOMAIN events :
        /\ events[n].ev = "exec"
        /\ events[n].code = "cooling"
        /\ events[n].id = last.fresh_id

\* The events of the mline stage: its lookup and its solver runs
MlineEvents(evs) ==
    {n \in DOMAIN evs : evs[n].code \in {"mline", "ml_db"}}

MlineGlobs(evs) ==
    {n \in DOMAIN evs : evs[n].ev = "glob" /\ evs[n].code = "mline"}

\* The molecules whose mline run has failed in the stage just run
FailedMolecs(evs) ==
    {evs[n].arg : n \in {k \in MlineGlobs(evs) :
                            evs[k].n # MlineFilesNeeded}}

\* C7 (Partial failure independence): in a mline batch where the run of
\* some molecule fails, that molecule ends with an empty id and every other
\* molecule keeps the id it was assigned; the sphinx stage starts a
\* calculation only for transitions of molecules with a non-empty id.
C7_PartialFailureIndependence ==
    [][/\ pc' = "doMline" =>
            \A i \in DOMAIN molec_list :
                molec_list'[i].model_id =
                    IF i \in FailedMolecs(events') THEN EMPTY
                    ELSE checkMlineDatabase(State)[1].molec_list[i].model_id
       /\ pc' = "doSphinx" =>
            \A i \in DOMAIN trans_list :
                molec_list[trans_list[i].molecule].model_id = EMPTY
                    => SphinxStarts(events', i) = {}]_vars

\* The sphinx stage has run after a batch of two molecules of which one
\* failed: a calculation was started for the transition of the other
\* molecule only
C7_Witness ==
    /\ pc = "doSphinx"
    /\ nreq = 1
    /\ \E i, j \in DOMAIN trans_list :
        /\ molec_list[trans_list[i].molecule].model_id = EMPTY
        /\ molec_list[trans_list[j].molecule].model_id # EMPTY
        /\ SphinxStarts(events, i) = {}
        /\ SphinxStarts(events, j) # {}

\* C8 (Sphinx lookup with an empty molecule id): the lookup reports a
\* transition whose molecule has an empty id as not found, gives it an
\* empty trans id and adds nothing to the sphinx database for it; the
\* lookup goes on with the sibling transitions, and no calculation is
\* started for the transition.
C8_EmptyMoleculeId ==
    [][pc' = "doSphinx" =>
        \A i \in DOMAIN trans_list :
            molec_list[trans_list[i].molecule].model_id = EMPTY =>
                LET before == checkSphinxUpTo(State, i - 1)
                    after == checkSphinxUpTo(State, i)
                    lk == checkSphinxDatabase(State)
                IN /\ after.trans_bools = Append(before.trans_bools, FALSE)
                   /\ after.trans_list[i].model_id = EMPTY
                   /\ after.sph_db = before.sph_db
                   /\ ~lk.raised
                   /\ \A j \in DOMAIN trans_list :
                        /\ trans_list[j].model_id = NONE
                        /\ molec_list[trans_list[j].molecule].model_id
                             # EMPTY
                        => lk.trans_list[j].model_id \in Ids
                   /\ SphinxStarts(events', i) = {}
                   /\ trans_list'[i].model_id = EMPTY]_vars

\* The sphinx stage has looked up a transition of a molecule with an empty
\* id and a sibling transition of a molecule with an id
C8_Witness ==
    /\ pc = "doSphinx"
    /\ ~raised
    /\ \E i, j \in DOMAIN trans_list :
        /\ i < j
        /\ molec_list[trans_list[i].molecule].model_id = EMPTY
        /\ trans_list[i].model_id = EMPTY
        /\ ~trans_bools[last.nbools + i]
        /\ molec_list[trans_list[j].molecule].model_id \in Ids
        /\ Len(trans_bools) = last.nbools + Len(trans_list)

\* The output checks that have returned, by the place of their file count
\* in the event trace
SphinxChecks(evs) ==
    {n \in DOMAIN evs :
        /\ evs[n].ev = "glob" /\ evs[n].code = "sphinx"
        /\ n < Len(evs)
        /\ evs[n + 1].ev = "print"}

\* C9 (Sphinx success is decided by the output files): after
\* checkSphinxOutput has returned for a transition, its leaf is in the
\* sphinx database without IN_PROGRESS if exactly two output files exist
\* for it; otherwise the leaf is gone and the transition's id is the empty
\* string.
C9_TwoOutputFiles ==
    [][pc' = "doSphinx" =>
        \A n \in SphinxChecks(events') :
            LET e == events'[n]
                t == trans_list[e.arg]
                mid == molec_list[t.molecule].model_id
                key == TransStr(State, t)
            IN IF e.n = SphinxFilesNeeded
               THEN /\ HasLeaf(sph_db', model_id, mid, e.id, key)
                    /\ ~has_key(sph_db'[model_id][mid][e.id][key],
                                "IN_PROGRESS")
                    /\ trans_list'[e.arg].model_id = e.id
               ELSE /\ ~HasLeaf(sph_db', model_id, mid, e.id, key)
                    /\ trans_list'[e.arg].model_id = EMPTY]_vars

\* Output checks have returned in one sphinx stage for a transition with
\* exactly two files and for a transition with another number of files
C9_Witness ==
    /\ pc = "doSphinx"
    /\ \E n, k \in SphinxChecks(events) :
        /\ events[n].n = SphinxFilesNeeded
        /\ events[k].n > SphinxFilesNeeded
        /\ trans_list[events[n].arg].model_id = events[n].id
        /\ trans_list[events[k].arg].model_id = EMPTY

\* C10 (Mline run without its three files): a mline run that does not
\* leave exactly three ml files creates no entry for the molecule and
\* empties the molecule's id; a run that does leave them stores the
\* molecule's dict under (cooling id, molec id, molecule) and syncs; every
\* molecule of the batch that was not found is run.
C10_MlineOutputFiles ==
    [][pc' = "doMline" =>
        /\ \A n \in MlineGlobs(events') :
            LET e == events'[n]
                m == molec_list[e.arg]
            IN IF e.n = MlineFilesNeeded
               THEN /\ HasMolecEntry(ml_db', model_id, e.id, m.molecule)
                    /\ ml_db'[model_id][e.id][m.molecule] = MolecMakeDict(m)
                    /\ n < Len(events')
                    /\ events'[n + 1] = Event("sync", "ml_db", e.id, e.arg)
                    /\ molec_list'[e.arg].model_id = e.id
               ELSE /\ ~HasMolecEntry(ml_db', model_id, e.id, m.molecule)
                    /\ molec_list'[e.arg].model_id = EMPTY
        /\ \A i \in DOMAIN last'.model_bools :
            ~last'.model_bools[i] /\ i \in DOMAIN molec_list =>
                \E n \in MlineGlobs(events') : events'[n].arg = i]_vars

\* A mline batch in which the run of the first molecule left no files and
\* the run of the second left three
C10_Witness ==
    /\ pc = "doMline"
    /\ \E n, k \in MlineGlobs(events) :
        /\ n < k
        /\ events[n].n # MlineFilesNeeded
        /\ events[k].n = MlineFilesNeeded
        /\ molec_list[events[n].arg].model_id = EMPTY
        /\ molec_list[events[k].arg].model_id = events[k].id

\* ------------------------------------------------------------------------
\* The database checks on their own.  The databases are files shared by
\* every session on the machine, so a check can meet databases that no
\* single session would have written: several cooling entries with the
\* same parameters, several molec ids with the same molecule.  This
\* specification starts a session in front of such databases and applies
\* one check to it.
\* ------------------------------------------------------------------------
\* The ids that are in the databases before the session makes one, and the
\* first id the session makes
StoredIds == 1..(MaxId - 2)

FirstNewId == MaxId - 1

\* The flags of a session that runs everything itself, with and without
\* replace_db_entry
LocalFlags ==
    {f \in SessionFlags :
        f.sphinx /\ ~f.vic /\ ~f.skip_cooling /\ ~f.recover_sphinxfiles}

\* The cooling parameters of a star, with and without a second power law
\* (TEMPERATURE_EPSILON2 is in the command list only when it is not zero)
LookupPars == [TEMPERATURE_EPSILON_GAS : EpsilonValues,
               TEMPERATURE_EPSILON2_GAS : {0, 1}]

\* Cooling databases: every entry holds the command list it was made with
StoredCoolDbs ==
    UNION {[S -> LookupPars] : S \in SUBSET StoredIds}

CoolDbOf(f) == [id \in DOMAIN f |-> MakeCommandList(id, f[id])]

\* Molecules with either number of iterations
LookupMolecules ==
    [molecule : MoleculeNames, itera : {1, 2}, abun_molec : AbunValues,
     model_id : {NONE}]

LookupMolecLists ==
    {ml \in UNION {[1..n -> LookupMolecules] : n \in 1..MaxMolecs} :
        \A i, j \in DOMAIN ml :
            i < j => NameRank(ml[i].molecule) < NameRank(ml[j].molecule)}

\* What one molec id of the mline database can hold
StoredMolecSlots ==
    UNION {[N -> {1, 2}] : N \in SUBSET MoleculeNames}

SlotOf(f) ==
    [name \in DOMAIN f |->
        MolecMakeDict([molecule |-> name, itera |-> f[name],
                       abun_molec |-> 1, model_id |-> NONE])]

\* The mline database under one cooling id: the slot of the cooling id
\* itself is always there (checkMlineDatabase makes it first)
StoredMolecDbs(cid) ==
    {f \in UNION {[S -> StoredMolecSlots] : S \in SUBSET StoredIds} :
        cid \in DOMAIN f}

MlDbOf(cid, f) == (cid :> [k \in DOMAIN f |-> SlotOf(f[k])])

\* A session inside doGastronoom, its new id made, in front of a cooling
\* database
LookupInitCooling ==
    /\ \E f \in StoredCoolDbs : cool_db = CoolDbOf(f)
    /\ ml_db = EmptyDict
    /\ flags \in LocalFlags
    /\ model_id = FirstNewId
    /\ new_entries \in SUBSET StoredIds
    /\ \E pars \in LookupPars :
        command_list = MakeCommandList(FirstNewId, pars)
    /\ molec_list = << >>
    /\ nextId = FirstNewId + 1

\* A session whose cooling model is number 1, in front of a mline database
\* that has no entry for it yet or some molec ids under it
LookupInitMline ==
    /\ cool_db = CoolDbOf((1 :> [TEMPERATURE_EPSILON_GAS |-> 1,
                                 TEMPERATURE_EPSILON2_GAS |-> 0]))
    /\ \/ ml_db = EmptyDict
       \/ \E f \in StoredMolecDbs(1) : ml_db = MlDbOf(1, f)
    /\ flags \in {f \in LocalFlags : ~f.replace_db_entry}
    /\ model_id = 1
    /\ new_entries = {}
    /\ command_list = cool_db[1]
    /\ molec_list \in LookupMolecLists
    /\ nextId = FirstNewId

LookupInit ==
    /\ LookupInitCooling \/ LookupInitMline
    /\ sph_db = EmptyDict
    /\ sphfiles = EmptyDict
    /\ trans_list = << >>
    /\ trans_bools = << >>
    /\ trans_in_progress = << >>
    /\ pc = "lookup"
    /\ raised = FALSE
    /\ events = << >>
    /\ last = NoLast
    /\ nreq = 1
    /\ nsess = 1
    /\ session_ids = {}
    /\ folders = EmptyDict

\* checkCoolingDatabase(molec_dict), as doCooling calls it
CheckCoolingDatabase ==
    /\ pc = "lookup"
    /\ ~has_key(cool_db, model_id)
    /\ \E r \in {checkCoolingDatabase(State, CoolingMolecDict)} :
        /\ Commit(r[1])
        /\ last' = [NoLast EXCEPT !.model_bool = r[2]]
    /\ pc' = "checkCoolingDatabase"
    /\ UNCHANGED <<flags, nreq, nsess, session_ids, folders>>

\* checkMlineDatabase(), as doMline calls it
CheckMlineDatabase ==
    /\ pc = "lookup"
    /\ has_key(cool_db, model_id)
    /\ \E r \in {checkMlineDatabase(State)} :
        /\ Commit(r[1])
        /\ last' = [NoLast EXCEPT !.model_bools = r[2]]
    /\ pc' = "checkMlineDatabase"
    /\ UNCHANGED <<flags, nreq, nsess, session_ids, folders>>

LookupNext ==
    \/ CheckCoolingDatabase
    \/ CheckMlineDatabase

SpecLookup == LookupInit /\ [][LookupNext]_vars

\* C11 (First match wins): without replace mode the cooling lookup
\* resolves to the lowest id whose entry matches the requested
\* configuration, also when several entries match.
C11_FirstCoolingMatch ==
    [][/\ pc' = "checkCoolingDatabase"
       /\ ~flags.replace_db_entry
       /\ \E id \in DOMAIN cool_db :
            CoolingPars(cool_db[id]) = CoolingPars(command_list)
       => /\ last'.model_bool
          /\ has_key(cool_db, model_id')
          /\ CoolingPars(cool_db[model_id']) = CoolingPars(command_list)
          /\ \A id \in DOMAIN cool_db :
                id < model_id' =>
                    CoolingPars(cool_db[id]) # CoolingPars(command_list)
          /\ cool_db' = cool_db]_vars

\* The lookup has resolved to the lower of two matching entries
C11_Witness ==
    /\ pc = "checkCoolingDatabase"
    /\ last.model_bool
    /\ \E id \in DOMAIN cool_db :
        /\ id > model_id
        /\ CoolingPars(cool_db[id]) = CoolingPars(cool_db[model_id])
        /\ CoolingPars(cool_db[id]) = CoolingPars(command_list)

\* The events of a trace that delete cooling id id
Deletions(evs, id) ==
    {n \in DOMAIN evs : evs[n].ev = "deleteCoolingId" /\ evs[n].id = id}

\* The events of a trace that run the cooling code, with their ids
CoolingRuns(evs) ==
    {evs[n].id : n \in {k \in DOMAIN evs :
                            evs[k].ev = "exec" /\ evs[k].code = "cooling"}}

\* C12 (Replace mode invalidates): in replace mode a matching cooling entry
\* that is not in new_entries is not reused: the lookup reports a miss, the
\* entry is gone from the cooling database, and the request goes on under
\* the newly made id, which differs from the id of the matched entry.
C12_ReplaceInvalidates ==
    [][/\ pc' = "doGastronoom"
       /\ flags.replace_db_entry
       /\ CoolingMatches(PreCooling, CoolingMolecDict) # {}
       /\ Min(CoolingMatches(PreCooling, CoolingMolecDict)) \notin new_entries'
       => LET id == Min(CoolingMatches(PreCooling, CoolingMolecDict)) IN
          /\ ~last'.model_bool
          /\ ~has_key(cool_db', id)
          /\ last'.fresh_id # id
          /\ model_id' \in {last'.fresh_id, EMPTY}
          /\ CoolingRuns(events') \subseteq {last'.fresh_id}
          /\ ~flags.skip_cooling => CoolingRuns(events') = {last'.fresh_id}
          /\ last'.isfile =>
                /\ model_id' = last'.fresh_id
                /\ has_key(cool_db', last'.fresh_id)]_vars

\* A replace-mode request has deleted a matching entry and stored its own
\* result under the new id
C12_Witness ==
    /\ pc = "doGastronoom"
    /\ flags.replace_db_entry
    /\ last.isfile
    /\ model_id = last.fresh_id
    /\ \E id \in Ids :
        /\ Deletions(events, id) # {}
        /\ id # model_id
        /\ ~has_key(cool_db, id)

\* The cooling entries that a replace-mode session is to keep: those whose
\* id is in new_entries and those that were the model id of one of its
\* earlier requests
KeptEntries ==
    IF flags.replace_db_entry
    THEN (new_entries \cup session_ids) \cap DOMAIN cool_db
    ELSE {}

\* C13 (Own entries are kept): in replace mode no lookup deletes a cooling
\* entry whose id is in new_entries or that was the model id of an earlier
\* request of the session: the entry stays as it is, and a request that it
\* is the first to match reuses it.
C13_OwnEntriesKept ==
    [][pc' # "init" =>
        \A id \in KeptEntries :
            /\ has_key(cool_db', id)
            /\ cool_db'[id] = cool_db[id]
            /\ (/\ pc' = "doGastronoom"
                /\ CoolingMatches(PreCooling, CoolingMolecDict) # {}
                /\ id = Min(CoolingMatches(PreCooling, CoolingMolecDict)))
                => last'.model_bool /\ model_id' = id]_vars

\* The molec ids under cooling id cid whose stored dict for the molecule's
\* name matches the molecule
MatchingMolecIds(db, cid, m) ==
    {k \in DOMAIN db[cid] :
        /\ has_key(db[cid][k], m.molecule)
        /\ compareCommandLists(MolecMakeDict(m), db[cid][k][m.molecule],
                               MlineKeywords(m.molecule))}

\* The molec ids under cooling id cid that have no dict for the molecule's
\* name
FreeMolecIds(db, cid, m) ==
    {k \in DOMAIN db[cid] : ~has_key(db[cid][k], m.molecule)}

\* C14 (Mline lookup order): each molecule is given the lowest molec id
\* whose stored configuration for its name matches (a hit); failing that the
\* lowest molec id under the cooling id that does not hold its name yet (a
\* miss that reuses the id); and a newly made id only when there is neither.
C14_MlineLookupOrder ==
    [][pc' = "checkMlineDatabase" /\ has_key(ml_db, model_id) =>
        \A i \in DOMAIN molec_list :
            LET m == molec_list[i]
                hits == MatchingMolecIds(ml_db, model_id, m)
                free == FreeMolecIds(ml_db, model_id, m)
                got == molec_list'[i].model_id
            IN /\ hits # {} => got = Min(hits) /\ last'.model_bools[i]
               /\ hits = {} /\ free # {} =>
                    got = Min(free) /\ ~last'.model_bools[i]
               /\ hits = {} /\ free = {} =>
                    /\ got = nextId
                    /\ ~has_key(ml_db[model_id], got)
                    /\ ~last'.model_bools[i]
               /\ got # nextId => got \in DOMAIN ml_db[model_id]]_vars

\* One lookup has hit for the first molecule on a molec id that is not the
\* lowest one, and has reused a molec id for the second
C14_Witness ==
    /\ pc = "checkMlineDatabase"
    /\ Len(molec_list) = 2
    /\ last.model_bools = <<TRUE, FALSE>>
    /\ molec_list[1].model_id > Min(DOMAIN ml_db[model_id])
    /\ molec_list[2].model_id \in DOMAIN ml_db[model_id]
    /\ nextId = FirstNewId

\* The molec ids that a lookup of molecule m can reuse: the lookup looks
\* under the session's cooling id only
ReusableMolecIds(m) ==
    IF has_key(ml_db, model_id) THEN FreeMolecIds(ml_db, model_id, m) ELSE {}

\* The lookup about to end has missed for both molecules of the request
BothMolecsMiss ==
    /\ pc' = "checkMlineDatabase"
    /\ Len(molec_list) = 2
    /\ last'.model_bools = <<FALSE, FALSE>>

ConfigPars == {p \in StarPars : p.TEMPERATURE_EPSILON_GAS = 1}

ConfigTrans(ml) ==
    [molecule : DOMAIN ml, tname : TransNames, n_quad : {1, 2},
     model_id : {NONE}]

ConfigTransLists(ml) ==
    {tl \in [DOMAIN ml -> ConfigTrans(ml)] :
        \A i \in DOMAIN tl : tl[i].molecule = i}

ConfigsInit == Init /\ flags \in LocalFlags

ConfigsNewSession == NewSessionOf(LocalFlags, MaxSessions)

\* doGastronoom(star) with a star whose molecules and transitions are new
\* objects
ConfigsNewStar ==
    /\ CanStartRequest
    /\ nreq < MaxRequests
    /\ \E pars \in ConfigPars : \E ml \in LookupMolecLists :
        \E tl \in ConfigTransLists(ml) :
            Request([State EXCEPT !.trans_in_progress =
                        [n \in DOMAIN @ |-> StaleRef(State, @[n])]],
                    pars, ml, tl)

ConfigsSameStar == SameStarRequest(ConfigPars, MaxRequests)

\* A mline run leaves its three files or none; a sphinx run its two
ConfigsDoMline == DoMlineOf({0, MlineFilesNeeded})

ConfigsDoSphinx == DoSphinxOf({SphinxFilesNeeded})

ConfigsNext ==
    \/ ConfigsNewSession
    \/ ConfigsNewStar
    \/ ConfigsSameStar
    \/ ConfigsDoMline
    \/ ConfigsDoSphinx

SpecConfigs == ConfigsInit /\ [][ConfigsNext]_vars

\* C16 (Mline store invariant): under every cooling id, for every molecule
\* name and every configuration that can be requested for it, at most one
\* molec id holds a stored configuration for the name that matches.
C16_MlineStoreInvariant ==
    \A cid \in DOMAIN ml_db : \A m \in LookupMolecules :
        Cardinality(MatchingMolecIds(ml_db, cid, m)) <= 1

\* Two molec ids under one cooling id hold the same molecule name, with
\* different configurations
C16_Witness ==
    \E cid \in DOMAIN ml_db : \E k1, k2 \in DOMAIN ml_db[cid] :
        \E name \in MoleculeNames :
            /\ k1 # k2
            /\ has_key(ml_db[cid][k1], name)
            /\ has_key(ml_db[cid][k2], name)
            /\ ml_db[cid][k1][name] # ml_db[cid][k2][name]

\* The signatures of the transitions that can be requested
TransKeys == {TransKey(name, tname) : name \in MoleculeNames,
                                      tname \in TransNames}

\* The trans ids under cooling id cid and molec id mid whose stored dict
\* for signature key matches a transition with that signature and N_QUAD q
MatchingTransIds(db, cid, mid, key, q) ==
    {k \in DOMAIN db[cid][mid] :
        /\ has_key(db[cid][mid][k], key)
        /\ compareCommandLists([TRANSITION |-> key, N_QUAD |-> q],
                               db[cid][mid][k][key], sphinx_keywords)}

\* C17 (Sphinx store invariant): under every cooling id and molec id, for
\* every transition signature and every configuration that can be
\* requested for it, at most one trans id holds a stored configuration for
\* the signature that matches.
C17_SphinxStoreInvariant ==
    \A x \in MolecSlots(sph_db) : \A key \in TransKeys : \A q \in {1, 2} :
        Cardinality(MatchingTransIds(sph_db, x[1], x[2], key, q)) <= 1

\* Two trans ids under one cooling id and molec id hold the same
\* signature, with different configurations
C17_Witness ==
    \E x \in MolecSlots(sph_db) :
        \E k1, k2 \in DOMAIN sph_db[x[1]][x[2]] : \E key \in TransKeys :
            /\ k1 # k2
            /\ has_key(sph_db[x[1]][x[2]][k1], key)
            /\ has_key(sph_db[x[1]][x[2]][k2], key)
            /\ sph_db[x[1]][x[2]][k1][key].N_QUAD
                    # sph_db[x[1]][x[2]][k2][key].N_QUAD

\* The events of a trace that hand a cooling model to the scheduler
AddModelEvents(evs) == {n \in DOMAIN evs : evs[n].ev = "vic.addModel"}

\* C18 (All molecules failed): when doMline ends with every molecule's id
\* empty, model_id is the empty string and the cooling model has not been
\* handed to the scheduler; when at least one molecule has an id, model_id
\* is what it was (and a vic session has handed that cooling model to the
\* scheduler).
C18_AllMolecsFailedAborts ==
    [][pc' = "doMline" /\ ~raised' =>
        LET ids == {molec_list'[i].model_id : i \in DOMAIN molec_list'} IN
        /\ ids = {EMPTY} =>
            /\ model_id' = EMPTY
            /\ AddModelEvents(events') = {}
        /\ ids # {EMPTY} =>
            /\ model_id' = model_id
            /\ model_id' # EMPTY
            /\ flags.vic /\ flags.sphinx =>
                \E n \in AddModelEvents(events') : events'[n].id = model_id
        ]_vars

\* A vic session has run mline for two molecules, both runs have failed
\* and the request is over
C18_Witness ==
    /\ pc = "doMline"
    /\ ~raised
    /\ flags.vic
    /\ Len(molec_list) = 2
    /\ \A i \in DOMAIN molec_list : molec_list[i].model_id = EMPTY
    /\ Cardinality(FailedMolecs(events)) = 2
    /\ model_id = EMPTY

\* C19 (Finalization): when doSphinx returns, model_id is the empty string
\* if every transition has ended with an empty id, those emptied because
\* their leaf is still IN_PROGRESS included; if at least one transition has
\* an id, model_id is what it was.
C19_FinalizeSphinx ==
    [][pc' = "doSphinx" /\ ~raised' =>
        LET ids == {trans_list'[i].model_id : i \in DOMAIN trans_list'} IN
        /\ ids = {EMPTY} => model_id' = EMPTY
        /\ ids # {EMPTY} => model_id' = model_id]_vars

\* The leaf of signature key under the three ids is there and does not
\* carry IN_PROGRESS
LeafDone(db, cid, mid, tid, key) ==
    /\ HasLeaf(db, cid, mid, tid, key)
    /\ ~has_key(db[cid][mid][tid][key], "IN_PROGRESS")

\* C20 (Stale in-progress leaf): in a session without vic, a transition
\* whose lookup has hit a leaf that carries IN_PROGRESS ends the sphinx
\* stage with an empty id, unless the leaf is there without IN_PROGRESS
\* when the stage ends.
C20_InProgressNotAssumedDone ==
    [][pc' = "doSphinx" /\ ~raised' /\ ~flags.vic =>
        \A i \in DOMAIN trans_list :
            InProgressHit(i) =>
                LET t == trans_list[i]
                    mid == molec_list[t.molecule].model_id
                    tid == Min(SphinxHits(State, mid, t))
                    key == TransStr(State, t)
                IN \/ trans_list'[i].model_id = EMPTY
                   \/ /\ trans_list'[i].model_id = tid
                      /\ LeafDone(sph_db', model_id, mid, tid, key)]_vars

\* A session without vic has hit a leaf that carries IN_PROGRESS, has run
\* nothing for the transition and has emptied its id; the leaf still
\* carries IN_PROGRESS
C20_Witness ==
    /\ pc = "doSphinx"
    /\ ~raised
    /\ ~flags.vic
    /\ SolverEvents(events) = {}
    /\ \E n \in DOMAIN trans_in_progress :
        /\ trans_in_progress[n].live
        /\ trans_list[trans_in_progress[n].idx].model_id = EMPTY
        /\ \E x \in TransLeaves(sph_db) :
            /\ x[4] = TransStr(State, trans_list[trans_in_progress[n].idx])
            /\ has_key(sph_db[x[1]][x[2]][x[3]][x[4]], "IN_PROGRESS")

\* ------------------------------------------------------------------------
\* Store handles, syncs and the order of the stages
\* ------------------------------------------------------------------------
\* The stores of which a handle, opened in read mode, is held just before
\* event number k of a trace
HeldHandles(evs, k) ==
    {db \in {"ml_db", "sph_db"} :
        Cardinality({n \in 1..(k - 1) : evs[n].ev = "open" /\ evs[n].code = db})
          > Cardinality({n \in 1..(k - 1) :
                            evs[n].ev = "close" /\ evs[n].code = db})}

\* C21 (Lock released before the run): at every call of execGastronoom no
\* handle that a lookup of this session has opened on the mline or sphinx
\* store is still held.
C21_HandleClosedBeforeExec ==
    \A k \in SolverEvents(events) : HeldHandles(events, k) = {}

\* A lookup has opened and closed the mline store and the mline solver has
\* been called afterwards
C21_Witness ==
    /\ pc = "doMline"
    /\ \E n, k \in DOMAIN events :
        /\ n < k
        /\ events[n] = Event("open", "ml_db", 0, 0)
        /\ events[k].ev = "exec"
        /\ events[k].code = "mline"

\* The store that the solver of a stage writes its results to
StoreOf(code) ==
    IF code = "mline" THEN "ml_db"
    ELSE IF code = "sphinx" THEN "sph_db"
    ELSE "cool_db"

\* The syncs of store db in a trace
Syncs(evs, db) ==
    {n \in DOMAIN evs : evs[n].ev = "sync" /\ evs[n].code = db}

\* C22 as stated (Deferred sync): no sync of the store of a leaf happens
\* between the end of the lookup (its closing sync included) and the
\* return of the solver call for the leaf.
C22_NoSyncBeforeReturn ==
    \A k \in SolverEvents(events) :
        \A n \in Syncs(events, StoreOf(events[k].code)) :
            n < k => events[n - 1].ev = "close"

\* Molecule number i of the session's list gets its id from a lookup that
\* misses
MlineMissed(i) ==
    /\ molec_list[i].model_id = NONE
    /\ has_key(ml_db, model_id) => MlineHits(State, molec_list[i]) = {}

\* Transition number i of the session's list gets its id from a lookup
\* that misses
SphinxMissed(i) ==
    LET t == trans_list[i]
        mid == molec_list[t.molecule].model_id
    IN /\ t.model_id = NONE
       /\ mid # EMPTY
       /\ mid # NONE
       /\ (has_key(sph_db, model_id) /\ has_key(sph_db[model_id], mid))
            => SphinxHits(State, mid, t) = {}

\* In a trace, the sync that records the result of a solver call follows
\* the call and the look at its output files; a sync of the same store
\* before the call is the one that ends the lookup or follows the solver
\* call for another leaf
SyncsFollowRuns(evs) ==
    \A k \in SolverEvents(evs) :
        \A n \in Syncs(evs, StoreOf(evs[k].code)) :
            IF evs[n].arg = evs[k].arg
            THEN /\ k < n
                 /\ \E g \in (k + 1)..(n - 1) :
                        evs[g].ev = "glob" /\ evs[g].arg = evs[k].arg
            ELSE \/ n > 1 /\ evs[n - 1].ev = "close"
                 \/ \E j \in SolverEvents(evs) :
                        /\ j < n
                        /\ evs[j].code = evs[k].code
                        /\ evs[j].arg = evs[n].arg

\* C22 (Deferred sync, amended): the sync that records the result of a
\* solver call comes after the call has returned and its output has been
\* looked at; the syncs of the store before that are the one that ends
\* the lookup and those that follow the solver calls for earlier leaves,
\* and what the lookup's sync writes for a leaf that missed is no
\* completed entry: no entry of the molecule under its mline id, and a
\* sphinx leaf that carries IN_PROGRESS.
C22_SyncAfterOwnRun ==
    [][/\ pc' \in {"doMline", "doSphinx"}
            => SyncsFollowRuns(events')
       /\ pc' = "doMline" =>
            \A i \in DOMAIN molec_list :
                MlineMissed(i) =>
                    LET s0 == checkMlineDatabase(State)[1]
                    IN ~HasMolecEntry(s0.ml_db, model_id,
                                      s0.molec_list[i].model_id,
                                      molec_list[i].molecule)
       /\ pc' = "doSphinx" =>
            \A i \in DOMAIN trans_list :
                SphinxMissed(i) =>
                    LET s0 == checkSphinxDatabase(State)
                        mid == molec_list[trans_list[i].molecule].model_id
                        tid == s0.trans_list[i].model_id
                        key == TransStr(State, trans_list[i])
                    IN /\ HasLeaf(s0.sph_db, model_id, mid, tid, key)
                       /\ has_key(s0.sph_db[model_id][mid][tid][key],
                                  "IN_PROGRESS")]_vars

\* The sphinx solver has run for two transitions that missed: the sync
\* after the first run comes before the second run, whose own sync follows
\* it
C22_Witness ==
    /\ pc = "doSphinx"
    /\ ~raised
    /\ \E k1, n1, k2, n2 \in DOMAIN events :
        /\ k1 < n1 /\ n1 < k2 /\ k2 < n2
        /\ events[k1].ev = "exec" /\ events[k1].arg = 1
        /\ events[n1].ev = "sync" /\ events[n1].arg = 1
        /\ events[k2].ev = "exec" /\ events[k2].arg = 2
        /\ events[n2].ev = "sync" /\ events[n2].arg = 2

\* One session that is asked for up to MaxRepeats models, of new stars or of
\* the star of the request before, whose molecules and transitions carry
\* the ids the request before gave them.
MaxRepeats == 3

RepeatInit == Init /\ flags \in LocalFlags

RepeatNewStar == NewStarRequest(StarPars, MolecLists, MaxRepeats)

RepeatSameStar == SameStarRequest(StarPars, MaxRepeats)

RepeatDoMline == DoMlineOf(MlineFileCounts)

RepeatDoSphinx == DoSphinxOf(SphinxFileCounts)

RepeatNext ==
    \/ RepeatNewStar
    \/ RepeatSameStar
    \/ RepeatDoMline
    \/ RepeatDoSphinx

SpecRepeat == RepeatInit /\ [][RepeatNext]_vars

\* C23 (Stage ordering per molecule): whenever doSphinx calls the sphinx
\* solver for a transition, or hands it to the scheduler, the mline store
\* holds an entry of the transition's molecule under the cooling id and the
\* molecule's mline id.
C23_MlineBeforeSphinx ==
    [][pc' = "doSphinx" =>
        \A i \in DOMAIN trans_list :
            SphinxStarts(events', i) # {} =>
                LET molec == molec_list[trans_list[i].molecule]
                IN HasMolecEntry(ml_db, model_id, molec.model_id, molec.molecule)]_vars

\* ------------------------------------------------------------------------
\* Gastronoom.copyOutput.  A file name is a prefix, the id the file was
\* written or linked under, and what follows the last underscore (a
\* molecule name, "sampling" or nothing).  The solvers name their files
\* after the id they run under and a link carries the id of its folder, so
\* the files of models/<id> carry the tag id.
\* ------------------------------------------------------------------------
FileSuffixes == MoleculeNames \cup {"", "sampling"}

FileName(prefix, tag, suffix) ==
    [prefix |-> prefix, tag |-> tag, suffix |-> suffix]

\* The files that the runs under one id can leave in its folder
SolverFiles(id) ==
    {FileName("cool", id, ""), FileName("cool", id, "12C16O"),
     FileName("cool", id, "sampling"), FileName("coolfgr", id, ""),
     FileName("input", id, ""), FileName("para", id, ""),
     FileName("ml", id, "12C16O"), FileName("ml", id, "28Si16O"),
     FileName("sph", id, "12C16O")}

\* ls of models/<id>
Dir(fs, id) == IF has_key(fs, id) THEN fs[id] ELSE {}

\* line[0:4] == 'cool'
StartsWithCool(f) == f.prefix \in {"cool", "coolfgr"}

\* lsfile: the files of the old folder that are to be linked
LsFile(dir, isMolecule, molecule) ==
    {f \in dir :
        /\ \/ (f.prefix = "ml" \/ StartsWithCool(f)) /\ ~isMolecule
           \/ f.prefix = "coolfgr"
           \/ f.prefix = "para"
           \/ f.prefix = "input"
        /\ ~isMolecule =>
            /\ ~(f.prefix = "ml" /\ f.suffix # molecule)
            /\ ~(/\ StartsWithCool(f)
                 /\ \/ f.suffix # molecule
                    \/ f.suffix = "sampling"
                    \/ f.prefix = "coolfgr")}

\* line.replace(old_id, new_id)
NewName(f, old_id, new_id) ==
    IF f.tag = old_id THEN [f EXCEPT !.tag = new_id] ELSE f

\* A copy that links every file, whatever the new folder holds
copyOutputLinks_all(fs, isMolecule, molecule, old_id, new_id) ==
    LsFile(Dir(fs, old_id), isMolecule, molecule)

\* The files of the old folder for which 'ln -s' is called
copyOutputLinks(fs, isMolecule, molecule, old_id, new_id) ==
    {f \in LsFile(Dir(fs, old_id), isMolecule, molecule) :
        NewName(f, old_id, new_id) \notin Dir(fs, new_id)}

\* The folders after copyOutput(entry, old_id, new_id); failed: the names
\* for which 'ln -s' could not make the link
copyOutput(fs, isMolecule, molecule, old_id, new_id, failed) ==
    Put(fs, new_id,
        Dir(fs, new_id) \cup
            ({NewName(f, old_id, new_id) :
                f \in copyOutputLinks(fs, isMolecule, molecule,
                                      old_id, new_id)} \ failed))

\* The molecule of the entry of a copyOutput call of the sphinx lookup
CopiedMolecule(s, molec_id) ==
    s.molec_list[Min({i \in DOMAIN s.molec_list :
                        s.molec_list[i].model_id = molec_id})].molecule

\* The folders after the copyOutput calls of a trace, from event n on
RECURSIVE copyOutputCalls(_, _, _, _, _)
copyOutputCalls(fs, s, evs, failed, n) ==
    IF n > Len(evs) THEN fs
    ELSE IF evs[n].ev = "copyOutput" /\ evs[n].code = "sphinx"
    THEN copyOutputCalls(
            copyOutput(fs, FALSE, CopiedMolecule(s, evs[n].arg),
                       evs[n].arg, evs[n].id, failed),
            s, evs, failed, n + 1)
    ELSE copyOutputCalls(fs, s, evs, failed, n + 1)

\* ------------------------------------------------------------------------
\* Specification SpecLinks: copyOutput as a function of the folders, and
\* the sphinx stage of a session together with the links it asks for
\* ------------------------------------------------------------------------
LinkedKey == TransKey("12C16O", "1-0")

\* The sphinx database of cooling model 1 and molecule id 1: transition 1-0
\* of 12C16O is stored with N_QUAD = 2 under trans id 1; trans id 2 is not
\* there, or holds another transition only
LinkedSphDbs ==
    LET leaf == [TRANSITION |-> LinkedKey, N_QUAD |-> 2]
        other == [TRANSITION |-> TransKey("28Si16O", "1-0"), N_QUAD |-> 1]
    IN {(1 :> (1 :> (1 :> (LinkedKey :> leaf)))),
        (1 :> (1 :> ((1 :> (LinkedKey :> leaf))
                     @@ (2 :> (TransKey("28Si16O", "1-0") :> other)))))}

\* The folder of id 1 after the cooling and mline runs: at most
\* MaxMissing of the files are not there
MaxMissing == 2

LinkedFolders ==
    {S \in SUBSET SolverFiles(1) :
        Cardinality(SolverFiles(1) \ S) <= MaxMissing}

\* The links that a trace's copyOutput calls make in folders fs when none
\* fails
LinksAsked(fs, s, evs) ==
    LET all == copyOutputCalls(fs, s, evs, {}, 1)
    IN UNION {Dir(all, id) \ Dir(fs, id) : id \in DOMAIN all}

\* A session whose cooling model is number 1 and whose molecule 12C16O has
\* mline id 1, before doSphinx for one transition; the folder of id 1
\* holds some of the files of the runs, the folder of trans id 2 some of
\* the links of an earlier copy
LinksInit ==
    /\ cool_db = CoolDbOf((1 :> [TEMPERATURE_EPSILON_GAS |-> 1,
                                 TEMPERATURE_EPSILON2_GAS |-> 0]))
    /\ molec_list = <<[molecule |-> "12C16O", itera |-> 1, abun_molec |-> 1,
                       model_id |-> 1]>>
    /\ ml_db = (1 :> (1 :> ("12C16O" :> MolecMakeDict(molec_list[1]))))
    /\ sph_db \in LinkedSphDbs
    /\ sphfiles = (<<1, LinkedKey>> :> SphinxFilesNeeded)
    /\ \E n_quad \in {1, 2} :
        trans_list = <<[molecule |-> 1, tname |-> "1-0", n_quad |-> n_quad,
                        model_id |-> NONE]>>
    /\ \E S1 \in LinkedFolders :
        \/ folders = (1 :> S1)
        \/ /\ has_key(sph_db[1][1], 2)
           /\ \E S2 \in SUBSET {FileName("cool", 2, "12C16O"),
                                FileName("ml", 2, "12C16O"),
                                FileName("input", 2, "")} :
                folders = (1 :> S1) @@ (2 :> S2)
    /\ flags = [vic |-> FALSE, sphinx |-> TRUE, replace_db_entry |-> FALSE,
                skip_cooling |-> FALSE, recover_sphinxfiles |-> FALSE]
    /\ model_id = 1
    /\ new_entries = {}
    /\ command_list = cool_db[1]
    /\ nextId = FirstNewId
    /\ trans_bools = << >>
    /\ trans_in_progress = << >>
    /\ pc = "links"
    /\ raised = FALSE
    /\ events = << >>
    /\ last = NoLast
    /\ nreq = 1
    /\ nsess = 1
    /\ session_ids = {1}

\* The links that can fail in one call: none or one
LinkFailures(fs, isMolecule, molecule, old_id, new_id) ==
    {{}} \cup {{NewName(f, old_id, new_id)} :
                f \in copyOutputLinks(fs, isMolecule, molecule,
                                      old_id, new_id)}

\* One call copyOutput(entry, old_id, new_id) with arguments a
CopyOutputCall(a, failed) ==
    /\ folders' = copyOutput(folders, a.isMolecule, a.molecule, a.old_id,
                             a.new_id, failed)
    /\ last' = [args |-> a, failed |-> failed,
                links |-> copyOutputLinks(folders, a.isMolecule, a.molecule,
                                          a.old_id, a.new_id)]
    /\ events' = <<Event("copyOutput",
                         IF a.isMolecule THEN "mline" ELSE "sphinx",
                         a.new_id, a.old_id)>>
    /\ UNCHANGED <<cool_db, ml_db, sph_db, sphfiles, nextId, flags, model_id,
                   new_entries, command_list, molec_list, trans_list,
                   trans_bools, trans_in_progress, raised, nreq, nsess,
                   session_ids>>

\* copyOutput(entry, old_id, new_id) for a Molecule or a Transition
CopyOutput ==
    /\ pc = "links"
    /\ \E a \in [isMolecule : BOOLEAN, molecule : MoleculeNames,
                 old_id : {1}, new_id : {2, FirstNewId}] :
        \E failed \in LinkFailures(folders, a.isMolecule, a.molecule,
                                   a.old_id, a.new_id) :
            CopyOutputCall(a, failed)
    /\ pc' = "copyOutput"

\* The same call once more
CopyOutputAgain ==
    /\ pc = "copyOutput"
    /\ CopyOutputCall(last.args, {})
    /\ pc' = "copyOutputAgain"

\* doSphinx(star) together with what its copyOutput calls do to the folders
LinksDoSphinx ==
    /\ pc = "links"
    /\ \E counts \in [DOMAIN trans_list -> SphinxFileCounts] :
        \E r \in {doSphinx(State, counts)} :
            /\ Commit(r)
            /\ \E failed \in {{}} \cup {{f} : f \in LinksAsked(folders, State,
                                                              r.events)} :
                folders' = copyOutputCalls(folders, State, r.events, failed, 1)
    /\ last' = [NoLast EXCEPT !.nbools = Len(trans_bools)]
    /\ pc' = "doSphinx"
    /\ UNCHANGED <<flags, nreq, nsess, session_ids>>

LinksNext ==
    \/ CopyOutput
    \/ CopyOutputAgain
    \/ LinksDoSphinx

SpecLinks == LinksInit /\ [][LinksNext]_vars

\* C24 (Idempotent linking): copyOutput calls 'ln -s' for no name that the
\* new folder already holds and for no name twice, and a second call with
\* the same arguments, after a first one whose links were all made, calls
\* it for no file and leaves the folders as they are.
C24_CopyOutputIdempotent ==
    [][pc' \in {"copyOutput", "copyOutputAgain"} =>
        LET a == last'.args IN
        /\ \A f \in last'.links :
            /\ NewName(f, a.old_id, a.new_id) \notin Dir(folders, a.new_id)
            /\ \A g \in last'.links :
                NewName(g, a.old_id, a.new_id)
                    = NewName(f, a.old_id, a.new_id) => g = f
        /\ (pc' = "copyOutputAgain" /\ last.failed = {}) =>
            /\ last'.links = {}
            /\ folders' = folders]_vars

\* copyOutput has been called twice for a transition; the first call made
\* a link next to one that the new folder held already, the second none
C24_Witness ==
    /\ pc = "copyOutputAgain"
    /\ ~last.args.isMolecule
    /\ last.links = {}
    /\ Cardinality(Dir(folders, 2)) >= 2
    /\ Cardinality(LsFile(Dir(folders, 1), FALSE, last.args.molecule)) >= 2
    /\ last.args.new_id = 2

\* The links that the copyOutput calls of a doSphinx step asked for and
\* that are not in the folders after the step
MissingLinks ==
    LinksAsked(folders, State, events')
        \ UNION {Dir(folders', id) : id \in DOMAIN folders'}

\* C25 (Link failure): when a link that copyOutput asked for could not be
\* made, the sphinx solver is not run for the leaf and the sphinx database
\* holds no completed leaf under the id whose folder misses the link.
C25_NoRunOnMissingLink ==
    [][pc' = "doSphinx" /\ MissingLinks # {} =>
        /\ SolverEvents(events') = {}
        /\ \A i \in DOMAIN trans_list' :
            ~LeafDone(sph_db', model_id,
                      molec_list[trans_list[i].molecule].model_id,
                      trans_list'[i].model_id,
                      TransStr(State, trans_list[i]))]_vars

\* C26 (Configuration error): a doGastronoom call that raises for an
\* error in the star's input (an abundance table for 12C16O, MDOT_MODE
\* OTHER without R_POINTS_MASS_LOSS) leaves the cooling, mline and sphinx
\* databases as they are and makes no external call: no solver run, no
\* deletion, no sync.
C26_ConfigErrorNoMutation ==
    [][pc' = "configError" =>
        /\ raised'
        /\ cool_db' = cool_db
        /\ ml_db' = ml_db
        /\ sph_db' = sph_db
        /\ events' = << >>]_vars

\* A session that replaces database entries has raised for an error in the
\* star's input, in front of a cooling database that holds a model made by
\* another session
C26_Witness ==
    /\ pc = "configError"
    /\ raised
    /\ flags.replace_db_entry
    /\ \E id \in DOMAIN cool_db : id \notin new_entries

\* Two command lists differ in nothing but the keys that name the run:
\* the other keys are the same on both sides and have the same values
SameButIdKeys(a, b) ==
    /\ DOMAIN a \ IdKeys = DOMAIN b \ IdKeys
    /\ \A k \in DOMAIN a \ IdKeys : a[k] = b[k]

\* The stored cooling models that differ from the session's command list
\* in nothing but the keys that name the run
SameCooling == {id \in DOMAIN cool_db : SameButIdKeys(command_list, cool_db[id])}

\* C27 (Ignore-set correctness): when stored cooling models differ from the
\* request only in OUTPUT_DIRECTORY, PARAMETER_FILE and OUTPUT_SUFFIX, the
\* lookup is a hit on one of them (or, in a session that replaces entries,
\* deletes one that is not in new_entries); when every stored model differs
\* in another key, or has another key on one side only, the lookup is a
\* miss and the request keeps the new id it was given.
C27_IgnoreSetCorrectness ==
    [][pc' = "checkCoolingDatabase" =>
        /\ SameCooling # {} =>
            \/ /\ last'.model_bool
               /\ model_id' \in SameCooling
               /\ cool_db' = cool_db
            \/ /\ flags.replace_db_entry
               /\ ~last'.model_bool
               /\ \E id \in SameCooling \ new_entries : ~has_key(cool_db', id)
        /\ SameCooling = {} =>
            /\ ~last'.model_bool
            /\ model_id' = model_id
            /\ ~has_key(cool_db, model_id')
            /\ cool_db' = cool_db]_vars

\* A lookup has hit a stored model that differs from the request in the
\* keys that name the run only, next to a stored model that has
\* TEMPERATURE_EPSILON2 when the request has not
C27_Witness ==
    /\ pc = "checkCoolingDatabase"
    /\ last.model_bool
    /\ has_key(cool_db, model_id)
    /\ \A k \in IdKeys : command_list[k] = model_id
    /\ ~has_key(command_list, "TEMPERATURE_EPSILON2")
    /\ \E id \in DOMAIN cool_db :
        /\ has_key(cool_db[id], "TEMPERATURE_EPSILON2")
        /\ cool_db[id].TEMPERATURE_EPSILON = command_list.TEMPERATURE_EPSILON

\* C28 (Cooling entries are frozen): no step changes what is stored under
\* a cooling id that stays in the database; a cooling id leaves the
\* database only through deleteCoolingId in a session that replaces
\* entries; a cooling id enters it only in doGastronoom, after a lookup
\* that missed and a cooling run that left its output file, as the new id
\* of the request, holding the request's command list.
C28_CoolingEntryFrozen ==
    [][/\ \A id \in DOMAIN cool_db :
            IF has_key(cool_db', id)
            THEN cool_db'[id] = cool_db[id]
            ELSE /\ flags.replace_db_entry
                 /\ pc' = "doGastronoom"
                 /\ Deletions(events', id) # {}
       /\ \A id \in DOMAIN cool_db' \ DOMAIN cool_db :
            /\ pc' = "doGastronoom"
            /\ ~last'.model_bool
            /\ last'.isfile
            /\ id = last'.fresh_id
            /\ id = model_id'
            /\ \E n \in SolverEvents(events') :
                events'[n].code = "cooling" /\ events'[n].id = id
            /\ SameButIdKeys(cool_db'[id], command_list')]_vars

\* A request of a later session has hit a cooling model that an earlier
\* request stored; the command list now names the run after that model
C28_Witness ==
    /\ pc = "doGastronoom"
    /\ last.model_bool
    /\ nsess > 1
    /\ has_key(cool_db, model_id)
    /\ model_id < last.fresh_id
    /\ \A k \in IdKeys : command_list[k] = model_id /\ cool_db[model_id][k] = model_id

\* Transition number i of the session's list matches a leaf of the sphinx
\* database under the cooling id and the id of its molecule
SphinxHit(i) ==
    LET t == trans_list[i]
        mid == molec_list[t.molecule].model_id
    IN /\ mid # EMPTY
       /\ mid # NONE
       /\ has_key(sph_db, model_id)
       /\ has_key(sph_db[model_id], mid)
       /\ SphinxHits(State, mid, t) # {}

\* C29 (trans_bools is equivalent to trans_list): when doSphinx has called
\* checkSphinxDatabase, trans_bools has one boolean for each transition of
\* trans_list, in the same order: True for a transition that matched a
\* stored leaf, False for one that did not.
C29_TransBoolsMatchTransList ==
    [][pc' = "doSphinx" =>
        /\ Len(trans_bools') = Len(trans_list)
        /\ \A i \in DOMAIN trans_list :
            i \in DOMAIN trans_bools' => (trans_bools'[i] <=> SphinxHit(i))]_vars

\* Molecule number i of the session's list matches an entry of the mline
\* database under the cooling id
MlineHit(i) ==
    /\ has_key(ml_db, model_id)
    /\ MlineHits(State, molec_list[i]) # {}

\* C30 (model_bools is equivalent with molec_list): the list that
\* checkMlineDatabase returns to doMline has one boolean for each molecule
\* of molec_list, in the same order: True for a molecule that matched a
\* stored entry, False for one that did not.
C30_ModelBoolsMatchMolecList ==
    [][pc' = "doMline" =>
        /\ Len(last'.model_bools) = Len(molec_list)
        /\ \A i \in DOMAIN molec_list :
            i \in DOMAIN last'.model_bools
                => (last'.model_bools[i] <=> MlineHit(i))]_vars

\* ------------------------------------------------------------------------
\* Specification SpecStored: the stages of a session in front of databases
\* that hold a cooling model (id 1), the mline model of 12C16O under it
\* (molec id 1) and, under these, sphinx leaves of 12C16O with N_QUAD = 2,
\* completed or in progress.  The stars have the stored cooling parameters
\* and the molecule 12C16O with one or two transitions, N_QUAD 1 or 2.  On
\* disk there are the two files of every completed leaf; for a leaf in
\* progress and for a transition without leaf there may be files that a run
\* left without its result reaching the database.
\* ------------------------------------------------------------------------
MaxStoredRequests == 2

\* str(trans) of the transitions 1-0 and 2-1 of 12C16O
StoredKeys == {TransKey("12C16O", tname) : tname \in {"1-0", "2-1"}}

\* Star['GAS_LINES'] of the stars: one or two transitions of 12C16O
StoredTransLists ==
    {tl \in UNION {[1..n -> [molecule : {1}, tname : {"1-0", "2-1"},
                             n_quad : {1, 2}, model_id : {NONE}]] :
                        n \in 1..2} :
        \A i, j \in DOMAIN tl :
            i < j => TransRank(tl[i].tname) < TransRank(tl[j].tname)}

\* The leaves under (1, 1, 1): none, or for some of the transitions
StoredLeaves ==
    UNION {[K -> BOOLEAN] : K \in SUBSET StoredKeys}

LeavesOf(f) ==
    [key \in DOMAIN f |->
        IF f[key]
        THEN [TRANSITION |-> key, N_QUAD |-> 2, IN_PROGRESS |-> 1]
        ELSE [TRANSITION |-> key, N_QUAD |-> 2]]

\* The numbers of sphinx files on disk that go with the leaves f
StoredFiles(f) ==
    {files \in [StoredKeys -> {0, SphinxFilesNeeded, SphinxFilesNeeded + 1}] :
        \A key \in StoredKeys :
            /\ (key \in DOMAIN f /\ ~f[key]) => files[key] = SphinxFilesNeeded
            /\ (key \in DOMAIN f /\ f[key])
                    => files[key] \in {0, SphinxFilesNeeded}}

FilesOf(files) ==
    [k \in {<<1, key>> : key \in {x \in StoredKeys : files[x] # 0}}
        |-> files[k[2]]]

\* The sessions: one that runs sphinx itself, one with recover_sphinxfiles,
\* one without sphinx, one with a scheduler
StoredFlags ==
    {f \in SessionFlags : ~f.replace_db_entry /\ ~f.skip_cooling}

StoredInit ==
    /\ cool_db = CoolDbOf((1 :> [TEMPERATURE_EPSILON_GAS |-> 1,
                                 TEMPERATURE_EPSILON2_GAS |-> 0]))
    /\ \E ml \in {x \in MolecLists : Len(x) = 1} :
        ml_db = (1 :> (1 :> ("12C16O" :> MolecMakeDict(ml[1]))))
    /\ \E f \in StoredLeaves :
        /\ sph_db = (1 :> (1 :> (1 :> LeavesOf(f))))
        /\ \E files \in StoredFiles(f) : sphfiles = FilesOf(files)
    /\ nextId = 2
    /\ flags \in StoredFlags
    /\ model_id = InitModelId
    /\ new_entries = {}
    /\ command_list = EmptyDict
    /\ molec_list = << >>
    /\ trans_list = << >>
    /\ trans_bools = << >>
    /\ trans_in_progress = << >>
    /\ pc = "init"
    /\ raised = FALSE
    /\ events = << >>
    /\ last = NoLast
    /\ nreq = 0
    /\ nsess = 1
    /\ session_ids = {}
    /\ folders = EmptyDict

\* doGastronoom(star) with a star whose molecule and transitions are new
\* objects
StoredNewStar ==
    /\ CanStartRequest
    /\ nreq < MaxStoredRequests
    /\ \E pars \in ConfigPars : \E ml \in {x \in MolecLists : Len(x) = 1} :
        \E tl \in StoredTransLists :
            Request([State EXCEPT !.trans_in_progress =
                        [n \in DOMAIN @ |-> StaleRef(State, @[n])]],
                    pars, ml, tl)

\* The stages of a session: doGastronoom with a new star or with the star
\* of the request before, doMline (a run would leave its three files) and
\* doSphinx
StoredNext ==
    \/ StoredNewStar
    \/ SameStarRequest(ConfigPars, MaxStoredRequests)
    \/ DoMlineOf({MlineFilesNeeded})
    \/ DoSphinxOf(SphinxFileCounts)

SpecStored == StoredInit /\ [][StoredNext]_vars

\* The id that the sphinx lookup gives transition number i
LookupTransId(i) == checkSphinxDatabase(State).trans_list[i].model_id

\* C31 (Recovery of sphinx files): with recover_sphinxfiles, doSphinx
\* calls no solver; a transition that missed is in the sphinx database
\* without IN_PROGRESS, under the id of the lookup, when exactly two of
\* its output files are on disk, and is otherwise not in the database, its
\* id the empty string.
C31_RecoverSphinxFiles ==
    [][pc' = "doSphinx" /\ flags.recover_sphinxfiles =>
        /\ SolverEvents(events') = {}
        /\ \A i \in DOMAIN trans_list :
            SphinxMissed(i) =>
                LET mid == molec_list[trans_list[i].molecule].model_id
                    tid == LookupTransId(i)
                    key == TransStr(State, trans_list[i])
                IN IF NFiles(sphfiles, tid, key) = SphinxFilesNeeded
                   THEN /\ LeafDone(sph_db', model_id, mid, tid, key)
                        /\ trans_list'[i].model_id = tid
                   ELSE /\ ~HasLeaf(sph_db', model_id, mid, tid, key)
                        /\ trans_list'[i].model_id = EMPTY]_vars

\* C32 (Output linking reaches every destination): when the sphinx solver
\* is called for a transition that missed and that the lookup gave a trans
\* id other than the mline id of its molecule, copyOutput has been called
\* before, in the same doSphinx, from the mline id to that trans id.
C32_LinksReachEveryId ==
    [][pc' = "doSphinx" =>
        \A i \in DOMAIN trans_list :
            LET mid == molec_list[trans_list[i].molecule].model_id
                tid == LookupTransId(i)
            IN (SphinxMissed(i) /\ tid # mid) =>
                \A k \in SolverEvents(events') :
                    events'[k].arg = i =>
                        \E n \in 1..(k - 1) :
                            /\ events'[n].ev = "copyOutput"
                            /\ events'[n].id = tid
                            /\ events'[n].arg = mid]_vars

\* ------------------------------------------------------------------------
\* The sphinx database on disk while doSphinx runs.  sync() writes the
\* database as it is in memory; a session that stops keeps on disk what the
\* last sync() wrote.
\* ------------------------------------------------------------------------
\* The session after the lookup and the first n passes of the loop of
\* doSphinx
RECURSIVE doSphinxUpTo(_, _, _)
doSphinxUpTo(s, counts, n) ==
    IF n = 0 THEN checkSphinxDatabase(s)
    ELSE LET p == doSphinxUpTo(s, counts, n - 1)
         IN IF n > Len(p.trans_list) \/ n > Len(p.trans_bools) THEN p
            ELSE doSphinxStep(p, n, p.trans_bools[n], counts[n])

\* The sphinx database on disk at that point
RECURSIVE SyncedSphDb(_, _, _)
SyncedSphDb(s, counts, n) ==
    IF n = 0 THEN checkSphinxDatabase(s).sph_db
    ELSE LET p == doSphinxUpTo(s, counts, n)
             q == doSphinxUpTo(s, counts, n - 1)
         IN IF /\ Len(p.events) > Len(q.events)
               /\ p.events[Len(p.events)].ev = "sync"
            THEN p.sph_db
            ELSE SyncedSphDb(s, counts, n - 1)

\* The sphinx database on disk when doSphinx has returned or raised
SyncedSphDbAtEnd(s, counts) ==
    LET e == doSphinx(s, counts)
    IN IF e.events[Len(e.events)].ev = "sync" THEN e.sph_db
       ELSE SyncedSphDb(s, counts, ZipLen(checkSphinxDatabase(s)))

\* No output check has returned for transition number i in the trace
Unchecked(evs, i) ==
    \A n \in SphinxChecks(evs) : evs[n].arg # i

\* The leaves on disk db that the lookup of this doSphinx has written for
\* transitions that missed and whose output has not been checked in the
\* trace carry IN_PROGRESS
ClaimedLeavesInProgress(db, evs) ==
    \A i \in DOMAIN trans_list :
        (SphinxMissed(i) /\ Unchecked(evs, i)) =>
            LET mid == molec_list[trans_list[i].molecule].model_id
                tid == LookupTransId(i)
                key == TransStr(State, trans_list[i])
            IN HasLeaf(db, model_id, mid, tid, key)
                => has_key(db[model_id][mid][tid][key], "IN_PROGRESS")

\* C33 (Crash during the sphinx stage): wherever doSphinx is called, at
\* every point between the end of its lookup and its end, and whatever the
\* runs leave on disk, a leaf of the sphinx database on disk that this
\* doSphinx has written for a transition that missed, and whose output it
\* has not checked yet, carries IN_PROGRESS.
C33_CrashLeavesInProgress ==
    (~raised /\ ProceedToSphinx) =>
        \A counts \in [DOMAIN trans_list -> SphinxFileCounts] :
            /\ \A n \in 0..Len(trans_list) :
                ClaimedLeavesInProgress(SyncedSphDb(State, counts, n),
                                        doSphinxUpTo(State, counts, n).events)
            /\ ClaimedLeavesInProgress(SyncedSphDbAtEnd(State, counts),
                                       doSphinx(State, counts).events)

\* doSphinx is about to be called for two transitions that miss; after the
\* first pass of its loop the database on disk holds the leaf of the first
\* without IN_PROGRESS and the leaf of the second, not checked yet, with it
C33_Witness ==
    /\ ~raised
    /\ ProceedToSphinx
    /\ Len(trans_list) = 2
    /\ SphinxMissed(1)
    /\ SphinxMissed(2)
    /\ \E counts \in [DOMAIN trans_list -> SphinxFileCounts] :
        LET db == SyncedSphDb(State, counts, 1)
            evs == doSphinxUpTo(State, counts, 1).events
            mid == molec_list[trans_list[2].molecule].model_id
            tid == LookupTransId(2)
            key == TransStr(State, trans_list[2])
        IN /\ ~Unchecked(evs, 1)
           /\ Unchecked(evs, 2)
           /\ LeafDone(db, model_id, molec_list[trans_list[1].molecule].model_id,
                       LookupTransId(1), TransStr(State, trans_list[1]))
           /\ HasLeaf(db, model_id, mid, tid, key)
           /\ has_key(db[model_id][mid][tid][key], "IN_PROGRESS")

\* C34 (No in-progress leaf of its own is left): when doSphinx has
\* returned in a session without scheduler, no leaf that its lookup wrote
\* for a transition that missed carries IN_PROGRESS: the leaf is in the
\* sphinx database without the flag or it is not there.
C34_NoOwnLeafInProgress ==
    [][pc' = "doSphinx" /\ ~raised' /\ ~flags.vic =>
        \A i \in DOMAIN trans_list :
            SphinxMissed(i) =>
                LET mid == molec_list[trans_list[i].molecule].model_id
                    tid == LookupTransId(i)
                    key == TransStr(State, trans_list[i])
                IN HasLeaf(sph_db', model_id, mid, tid, key)
                    => ~has_key(sph_db'[model_id][mid][tid][key],
                                "IN_PROGRESS")]_vars

\* C35 (A failed cooling run leaves the databases as they were): when the
\* cooling stage of a request looked up, missed and found no output file
\* afterwards, the cooling, mline and sphinx databases are as before the
\* request, in replace mode too.
C35_FailedCoolingLeavesStores ==
    [][pc' = "doGastronoom" /\ ~last'.model_bool /\ ~last'.isfile =>
        /\ cool_db' = cool_db
        /\ ml_db' = ml_db
        /\ sph_db' = sph_db]_vars

\* C35 (amended): when the cooling stage of a request looked up, missed
\* and found no output file afterwards, the three databases are as before
\* the request, except that in replace mode the first cooling entry that
\* matches the request, when its id is not in new_entries, is gone together
\* with everything under its id in the mline and sphinx databases.
C35_FailedCoolingKeepsOrInvalidates ==
    [][pc' = "doGastronoom" /\ ~last'.model_bool /\ ~last'.isfile =>
        LET hits == CoolingMatches(PreCooling, CoolingMolecDict)
        IN IF /\ flags.replace_db_entry
              /\ hits # {}
              /\ Min(hits) \notin new_entries'
           THEN /\ cool_db' = Del(cool_db, Min(hits))
                /\ ml_db' = Del(ml_db, Min(hits))
                /\ sph_db' = Del(sph_db, Min(hits))
           ELSE /\ cool_db' = cool_db
                /\ ml_db' = ml_db
                /\ sph_db' = sph_db]_vars

\* A replace-mode request has deleted a cooling entry with a sphinx model
\* under it, run the cooling code and found no output file
C35_Witness ==
    /\ StageAFailed
    /\ flags.replace_db_entry
    /\ SolverEvents(events) # {}
    /\ \E id \in Ids :
        /\ Deletions(events, id) # {}
        /\ ~has_key(cool_db, id)
        /\ ~has_key(sph_db, id)
        /\ \E k \in DOMAIN sphfiles : k[1] = id

\* C36 (No duplicate cooling entries): no two entries of the cooling
\* database match each other under the cooling keywords, after any
\* sequence of requests, in replace mode or not, whether the cooling runs
\* succeed or fail.
C36_NoDuplicateCooling ==
    \A a, b \in DOMAIN cool_db :
        a # b => ~compareCommandLists(cool_db[a], cool_db[b],
                                      cooling_keywords)

\* A replace-mode request has deleted the entry it matched and stored its
\* own next to another entry
C36_Witness ==
    /\ pc = "doGastronoom"
    /\ flags.replace_db_entry
    /\ last.isfile
    /\ \E id \in Ids : Deletions(events, id) # {}
    /\ Cardinality(DOMAIN cool_db) >= 2
    /\ has_key(cool_db, model_id)

\* ------------------------------------------------------------------------
\* Specification SpecShared: a session in front of stores in which the two
\* molecules of a star can have different mline ids: cooling model 1 has
\* the mline models of 12C16O and 28Si16O with one iteration under molec
\* id 1 and the mline model of 12C16O with two iterations under molec id
\* 2, and sphinx models with N_QUAD = 2 under them
\* ------------------------------------------------------------------------
\* Star['GAS_LINES'] for the molecules ml: transition 1-0 of each
SharedTransLists(ml) ==
    {tl \in [DOMAIN ml -> [molecule : DOMAIN ml, tname : {"1-0"},
                           n_quad : {1, 2}, model_id : {NONE}]] :
        \A i \in DOMAIN tl : tl[i].molecule = i}

SharedInit ==
    /\ cool_db = CoolDbOf((1 :> [TEMPERATURE_EPSILON_GAS |-> 1,
                                 TEMPERATURE_EPSILON2_GAS |-> 0]))
    /\ ml_db = (1 :> ((1 :> SlotOf(("12C16O" :> 1) @@ ("28Si16O" :> 1)))
                      @@ (2 :> SlotOf(("12C16O" :> 2)))))
    /\ \E names \in {{"12C16O"}, MoleculeNames} : \E second \in BOOLEAN :
        LET leaves(N) == [key \in {TransKey(name, "1-0") : name \in N} |->
                            [TRANSITION |-> key, N_QUAD |-> 2]]
        IN /\ sph_db = (1 :> ((1 :> (1 :> leaves(names)))
                              @@ IF second
                                 THEN (2 :> (2 :> leaves({"12C16O"})))
                                 ELSE EmptyDict))
           /\ sphfiles =
                [k \in {<<1, TransKey(name, "1-0")>> : name \in names}
                       \cup (IF second THEN {<<2, TransKey("12C16O", "1-0")>>}
                             ELSE {})
                    |-> SphinxFilesNeeded]
    /\ nextId = 3
    /\ flags \in StoredFlags
    /\ model_id = InitModelId
    /\ new_entries = {}
    /\ command_list = EmptyDict
    /\ molec_list = << >>
    /\ trans_list = << >>
    /\ trans_bools = << >>
    /\ trans_in_progress = << >>
    /\ pc = "init"
    /\ raised = FALSE
    /\ events = << >>
    /\ last = NoLast
    /\ nreq = 0
    /\ nsess = 1
    /\ session_ids = {}
    /\ folders = EmptyDict

\* doGastronoom(star) with a star whose molecules and transitions are new
\* objects
SharedNewStar ==
    /\ CanStartRequest
    /\ nreq < MaxStoredRequests
    /\ \E pars \in ConfigPars :
        \E ml \in {x \in LookupMolecLists : x[1].molecule = "12C16O"} :
        \E tl \in SharedTransLists(ml) :
            Request([State EXCEPT !.trans_in_progress =
                        [n \in DOMAIN @ |-> StaleRef(State, @[n])]],
                    pars, ml, tl)

SharedNext ==
    \/ SharedNewStar
    \/ DoMlineOf({MlineFilesNeeded})
    \/ DoSphinxOf({SphinxFilesNeeded})

SpecShared == SharedInit /\ [][SharedNext]_vars

\* C37 (Id logs identify the ancestors of a new id): makeIdLog writes
\* cooling_id.log with the session's cooling id, and mline_id.log with the
\* molec id it is given.  For every transition that the sphinx lookup
\* gives a trans id made in that lookup, makeIdLog has been called for
\* that trans id with the mline id of the transition's molecule, also
\* when the new trans id is shared by transitions of molecules with
\* different mline ids; and for every mline id that the mline lookup adds
\* under the cooling id, makeIdLog has been called for it in a session
\* with that cooling id.
C37_IdLogsNameAncestors ==
    [][/\ pc' = "doSphinx" =>
            \A i \in DOMAIN trans_list :
                LET mid == molec_list[trans_list[i].molecule].model_id
                    tid == LookupTransId(i)
                IN (mid # EMPTY /\ mid # NONE /\ tid >= nextId) =>
                    \E n \in DOMAIN events' :
                        /\ events'[n].ev = "makeIdLog"
                        /\ events'[n].code = "sphinx"
                        /\ events'[n].id = tid
                        /\ events'[n].arg = mid
       /\ (pc' = "doMline" /\ has_key(ml_db', model_id)) =>
            \A k \in DOMAIN ml_db'[model_id] :
                (k # model_id /\ k >= nextId) =>
                    \E n \in DOMAIN events' :
                        /\ events'[n].ev = "makeIdLog"
                        /\ events'[n].code = "cooling"
                        /\ events'[n].id = k
                        /\ events'[n].arg = model_id]_vars

VicCalls(evs, ev) == {n \in DOMAIN evs : evs[n].ev = ev}

\* C39 (Remote scheduler): with a scheduler and sphinx true, doSphinx
\* calls no solver itself and calls exactly one of vic.queueModel and
\* vic.reset, once: queueModel when it has handed at least one transition
\* to the scheduler with vic.addTrans in this call, reset when it has
\* handed over none.
C39_QueueIffAdded ==
    [][pc' = "doSphinx" /\ flags.vic /\ flags.sphinx /\ ~raised' =>
        /\ SolverEvents(events') = {}
        /\ Cardinality(VicCalls(events', "vic.queueModel")
                        \cup VicCalls(events', "vic.reset")) = 1
        /\ VicCalls(events', "vic.queueModel") # {}
            <=> VicCalls(events', "vic.addTrans") # {}]_vars

====
